---- MODULE Spec2Model ----
(***************************************************************************)
(* A model of qre (src/qre/__init__.py, src/registered_types.py): the      *)
(* pattern DSL compiler (Matcher._create_regex / Matcher._field_repl), the *)
(* type registry (register_type), the result extraction                    *)
(* (Matcher._create_result / Matcher._grouplist), the pattern cache        *)
(* (Matcher.pattern / Matcher.regex) and the multi-pattern combinator      *)
(* (MultiMatcher._matcher.collect_results).                                *)
(*                                                                         *)
(* Text is modelled as a sequence of one-character strings, so that the    *)
(* substitutions the compiler performs are computed character by           *)
(* character, as re.sub and str.translate compute them.  The regular       *)
(* expression engine (Python's re) is modelled by a parser of the regex    *)
(* text and a backtracking matcher that enumerates the matches in the      *)
(* engine's priority order.                                                *)
(***************************************************************************)
EXTENDS Integers, Sequences, FiniteSets, TLC

(***************************************************************************)
(* Text helpers.                                                           *)
(***************************************************************************)

\* The backslash character.
BSL == "\\"

RECURSIVE Concat(_)
\* "".join(parts): the concatenation of a sequence of texts.
Concat(parts) ==
    IF parts = <<>> THEN <<>> ELSE Head(parts) \o Concat(Tail(parts))

\* text[a..b] (1-based, inclusive), empty when a > b.
Slice(text, a, b) == IF a > b THEN <<>> ELSE SubSeq(text, a, b)

\* Whether `part` occurs in `text` at index i.
OccursAt(text, part, i) ==
    /\ i >= 1
    /\ i + Len(part) - 1 <= Len(text)
    /\ SubSeq(text, i, i + Len(part) - 1) = part

RECURSIVE ReplaceFrom(_, _, _, _)
\* str.replace / re.sub of a fixed text: the occurrences of `old`, left to
\* right and not overlapping, each replaced by `new`; scanning from index i.
ReplaceFrom(text, old, new, i) ==
    IF i > Len(text) THEN <<>>
    ELSE IF OccursAt(text, old, i)
         THEN new \o ReplaceFrom(text, old, new, i + Len(old))
         ELSE <<text[i]>> \o ReplaceFrom(text, old, new, i + 1)

ReplaceAll(text, old, new) == ReplaceFrom(text, old, new, 1)

Digits == {"0", "1", "2", "3", "4", "5", "6", "7", "8", "9"}

Letters ==
    {"a", "b", "c", "d", "e", "f", "g", "h", "i", "j", "k", "l", "m",
     "n", "o", "p", "q", "r", "s", "t", "u", "v", "w", "x", "y", "z",
     "A", "B", "C", "D", "E", "F", "G", "H", "I", "J", "K", "L", "M",
     "N", "O", "P", "Q", "R", "S", "T", "U", "V", "W", "X", "Y", "Z"}

\* The characters \w matches, and the characters \d matches.
WordChars == Letters \cup Digits \cup {"_"}

\* The characters \s matches.
SpaceChars == {" ", "\t", "\n", "\r", "\f"}

AllIn(text, chars) == \A i \in 1..Len(text) : text[i] \in chars

(***************************************************************************)
(* The Escaper: SPECIAL_CHARS and pattern.translate(SPECIAL_CHARS).        *)
(***************************************************************************)

\* The characters the compiler escapes (the vertical tab has no TLA+
\* string escape and is left out).
SPECIAL_CHARS ==
    {"(", ")", "{", "}", "-", "^", "$", BSL, ".", "&", "~", "#",
     " ", "\t", "\n", "\r", "\f"}

RECURSIVE translate(_)
translate(pattern) ==
    IF pattern = <<>> THEN <<>>
    ELSE (IF Head(pattern) \in SPECIAL_CHARS
          THEN <<BSL, Head(pattern)>>
          ELSE <<Head(pattern)>>) \o translate(Tail(pattern))

(***************************************************************************)
(* The Wildcard Translator: the loop over `wildcards` in _create_regex.    *)
(***************************************************************************)

\* The wildcards table, in its iteration order.
wildcards ==
    << [wildcard |-> "*", actual |-> <<".", "*">>],
       [wildcard |-> "+", actual |-> <<".">>],
       [wildcard |-> "?", actual |-> <<".", "?">>],
       [wildcard |-> "|", actual |-> <<"|">>] >>

RECURSIVE SubNotEscaped(_, _, _, _)
\* re.sub(r"(?<!\[)\<wildcard>", actual, text): every wildcard that is not
\* directly preceded by "[" (in the text scanned) becomes `actual`.
SubNotEscaped(text, wildcard, actual, i) ==
    IF i > Len(text) THEN <<>>
    ELSE (IF text[i] = wildcard /\ (i = 1 \/ text[i - 1] # "[")
          THEN actual
          ELSE <<text[i]>>) \o SubNotEscaped(text, wildcard, actual, i + 1)

\* re.sub(r"\[\<wildcard>]", r"\<wildcard>", text).
SubEscaped(text, wildcard) ==
    ReplaceAll(text, <<"[", wildcard, "]">>, <<BSL, wildcard>>)

RECURSIVE TranslateWildcards(_, _)
TranslateWildcards(text, k) ==
    IF k > Len(wildcards) THEN text
    ELSE TranslateWildcards(
             SubEscaped(SubNotEscaped(text, wildcards[k].wildcard,
                                      wildcards[k].actual, 1),
                        wildcards[k].wildcard),
             k + 1)

(***************************************************************************)
(* The Type Registry: src/registered_types.py.                             *)
(***************************************************************************)

RECURSIVE CleanupFrom(_, _)
\* TYPE_CLEANUP_REGEX.sub("(?:", regex) with TYPE_CLEANUP_REGEX =
\* (?<!\\)\((?!\?): every "(" that is not directly preceded by a backslash
\* and not directly followed by "?" becomes "(?:".
CleanupFrom(regex, i) ==
    IF i > Len(regex) THEN <<>>
    ELSE (IF /\ regex[i] = "("
             /\ (i = 1 \/ regex[i - 1] # BSL)
             /\ (i = Len(regex) \/ regex[i + 1] # "?")
          THEN <<"(", "?", ":">>
          ELSE <<regex[i]>>) \o CleanupFrom(regex, i + 1)

TYPE_CLEANUP_REGEX_sub(regex) == CleanupFrom(regex, 1)

\* The index of `name` among the keys of an insertion-ordered dict (a
\* sequence of records with a `name` field), 0 when absent.
KeyIndex(dict, name) ==
    IF \E i \in 1..Len(dict) : dict[i].name = name
    THEN CHOOSE i \in 1..Len(dict) : dict[i].name = name
    ELSE 0

\* dict[entry.name] = entry: an existing key keeps its place.
DictSet(dict, entry) ==
    IF KeyIndex(dict, entry.name) = 0
    THEN Append(dict, entry)
    ELSE [dict EXCEPT ![KeyIndex(dict, entry.name)] = entry]

\* register_type(name, regex, converter): the registry after the call.
register_type(types, name, regex, converter) ==
    DictSet(types, [name |-> name,
                    regex |-> TYPE_CLEANUP_REGEX_sub(regex),
                    converter |-> converter])

RECURSIVE JoinKeys(_, _)
\* ",".join(registered_types.keys())
JoinKeys(types, i) ==
    IF i > Len(types) THEN <<>>
    ELSE (IF i > 1 THEN <<",">> ELSE <<>>) \o types[i].name
         \o JoinKeys(types, i + 1)

NoneFound == <<"N", "o", "n", "e", " ", "f", "o", "u", "n", "d">>

\* An exception: `kind` is the exception type ("none": nothing raised), and
\* the other fields are what its message carries.
Exception(kind, type, known, key) ==
    [kind |-> kind, type |-> type, known |-> known, key |-> key]

NoError == Exception("none", <<>>, <<>>, <<>>)

\* ValueError(f"Unknown type {type_} - known types are: {... or 'None found'}")
UnknownTypeError(type_, types) ==
    Exception("ValueError", type_,
              IF JoinKeys(types, 1) = <<>> THEN NoneFound ELSE JoinKeys(types, 1),
              <<>>)

(***************************************************************************)
(* The Group Compiler: Matcher._field_repl and the re.sub that calls it.   *)
(***************************************************************************)

RECURSIVE RunEnd(_, _, _)
\* The index after the longest run of characters of `chars` starting at i.
RunEnd(text, i, chars) ==
    IF i <= Len(text) /\ text[i] \in chars
    THEN RunEnd(text, i + 1, chars) ELSE i

CharAt(text, i) == IF i >= 1 /\ i <= Len(text) THEN text[i] ELSE ""

\* re.search(r"\[]", s): an index where the form starts, 0 if none.
FirstIndex(S) == IF S = {} THEN 0 ELSE CHOOSE i \in S : \A j \in S : i <= j

SearchEmpty(s) ==
    FirstIndex({i \in 1..Len(s) : CharAt(s, i) = "[" /\ CharAt(s, i + 1) = "]"})

\* re.search(r"\[:(X+)]", s), X the characters of `chars`.
SearchUnnamed(s, chars) ==
    FirstIndex({i \in 1..Len(s) :
        /\ CharAt(s, i) = "["
        /\ CharAt(s, i + 1) = ":"
        /\ RunEnd(s, i + 2, chars) > i + 2
        /\ CharAt(s, RunEnd(s, i + 2, chars)) = "]"})

\* re.search(r"\[(\w+)]", s)
SearchNamed(s) ==
    FirstIndex({i \in 1..Len(s) :
        /\ CharAt(s, i) = "["
        /\ RunEnd(s, i + 1, WordChars) > i + 1
        /\ CharAt(s, RunEnd(s, i + 1, WordChars)) = "]"})

\* re.search(r"\[(\w+):(X+)]", s), X the characters of `chars`.
SearchNamedWith(s, chars) ==
    FirstIndex({i \in 1..Len(s) :
        LET c == RunEnd(s, i + 1, WordChars) IN
        /\ CharAt(s, i) = "["
        /\ c > i + 1
        /\ CharAt(s, c) = ":"
        /\ RunEnd(s, c + 1, chars) > c + 1
        /\ CharAt(s, RunEnd(s, c + 1, chars)) = "]"})

\* The key of a converter: the name of a named group, or the ordinal of an
\* unnamed one.
NameKey(name) == [named |-> TRUE, name |-> name, idx |-> 0]
IndexKey(idx) == [named |-> FALSE, name |-> <<>>, idx |-> idx]

ConverterIndex(converters, key) ==
    IF \E i \in 1..Len(converters) : converters[i].key = key
    THEN CHOOSE i \in 1..Len(converters) : converters[i].key = key
    ELSE 0

\* self.converters[key] = converter
ConvertersSet(converters, key, converter) ==
    IF ConverterIndex(converters, key) = 0
    THEN Append(converters, [key |-> key, conv |-> converter])
    ELSE [converters EXCEPT ![ConverterIndex(converters, key)] =
              [key |-> key, conv |-> converter]]

\* One entry of the capture plan: what _field_repl made of a bracketed span.
PlanEntry(form, name, arg) == [form |-> form, name |-> name, arg |-> arg]

\* The unnamed typed form: "(regex)" and the converter under the ordinal.
UnnamedTyped(st, types, type_, k) ==
    IF k = 0 THEN [st EXCEPT !.err = UnknownTypeError(type_, types)]
    ELSE [st EXCEPT !.out = @ \o <<"(">> \o types[k].regex \o <<")">>,
                    !.converters = ConvertersSet(@, IndexKey(st.index),
                                                 types[k].converter),
                    !.index = @ + 1,
                    !.plan = Append(@, PlanEntry("UnnamedTyped", <<>>, type_))]

\* A faulty named typed form: it takes an unnamed ordinal.
NamedTypedCounting(st, types, name, type_, k) ==
    IF k = 0 THEN [st EXCEPT !.err = UnknownTypeError(type_, types)]
    ELSE [st EXCEPT !.out = @ \o <<"(", "?", "P", "<">> \o name \o <<">">>
                              \o types[k].regex \o <<")">>,
                    !.converters = ConvertersSet(@, NameKey(name),
                                                 types[k].converter),
                    !.index = @ + 1,
                    !.plan = Append(@, PlanEntry("NamedTyped", name, type_))]

\* The named typed form: "(?P<name>regex)" and the converter under the name.
NamedTyped(st, types, name, type_, k) ==
    IF k = 0 THEN [st EXCEPT !.err = UnknownTypeError(type_, types)]
    ELSE [st EXCEPT !.out = @ \o <<"(", "?", "P", "<">> \o name \o <<">">>
                              \o types[k].regex \o <<")">>,
                    !.converters = ConvertersSet(@, NameKey(name),
                                                 types[k].converter),
                    !.plan = Append(@, PlanEntry("NamedTyped", name, type_))]

NamedWidth(st, name, width) ==
    [st EXCEPT !.out = @ \o <<"(", "?", "P", "<">> \o name
                         \o <<">", ".", "{">> \o width \o <<"}", ")">>,
               !.plan = Append(@, PlanEntry("NamedWidth", name, width))]

\* The text of `s` from index i to the end of its run of `chars`.
RunAt(s, i, chars) == Slice(s, i, RunEnd(s, i, chars) - 1)

\* The six forms, tried in the code's order on the field text s; e, uw, ut,
\* n, nw and nt are where each form is found in s (0: not found).  A span
\* no form matches makes the callback return None, which re.sub takes as
\* the empty replacement.
FieldForms(s, st, types, e, uw, ut, n, nw, nt) ==
    IF e # 0 THEN
        [st EXCEPT !.out = @ \o <<"(", ".", "*", ")">>,
                   !.index = @ + 1,
                   !.plan = Append(@, PlanEntry("UnnamedFreeform", <<>>, <<>>))]
    ELSE IF uw # 0 THEN
        [st EXCEPT !.out = @ \o <<"(", ".", "{">> \o RunAt(s, uw + 2, Digits)
                             \o <<"}", ")">>,
                   !.index = @ + 1,
                   !.plan = Append(@, PlanEntry("UnnamedWidth", <<>>,
                                                RunAt(s, uw + 2, Digits)))]
    ELSE IF ut # 0 THEN
        UnnamedTyped(st, types, RunAt(s, ut + 2, WordChars),
                     KeyIndex(types, RunAt(s, ut + 2, WordChars)))
    ELSE IF n # 0 THEN
        [st EXCEPT !.out = @ \o <<"(", "?", "P", "<">> \o RunAt(s, n + 1, WordChars)
                             \o <<">", ".", "*", ")">>,
                   !.plan = Append(@, PlanEntry("NamedFreeform",
                                                RunAt(s, n + 1, WordChars), <<>>))]
    ELSE IF nw # 0 THEN
        NamedWidth(st, RunAt(s, nw + 1, WordChars),
                   RunAt(s, RunEnd(s, nw + 1, WordChars) + 1, Digits))
    ELSE IF nt # 0 THEN
        NamedTyped(st, types, RunAt(s, nt + 1, WordChars),
                   RunAt(s, RunEnd(s, nt + 1, WordChars) + 1, WordChars),
                   KeyIndex(types, RunAt(s, RunEnd(s, nt + 1, WordChars) + 1,
                                         WordChars)))
    ELSE [st EXCEPT !.plan = Append(@, PlanEntry("None", <<>>, <<>>))]

\* The searches of _field_repl on the field text s.
FieldSearches(s, st, types) ==
    FieldForms(s, st, types, SearchEmpty(s), SearchUnnamed(s, Digits),
               SearchUnnamed(s, WordChars), SearchNamed(s),
               SearchNamedWith(s, Digits), SearchNamedWith(s, WordChars))

\* _field_repl(match_obj) on the matched span `span`, in the compile state
\* st = [out, converters, index, plan, err]; the replacement is appended to
\* st.out.
field_repl(span, st, types) ==
    FieldSearches(ReplaceAll(span, <<BSL, " ">>, <<>>), st, types)

\* The index of the first "]" after index i, 0 if there is none.
CloseAfter(text, i) == FirstIndex({j \in (i + 1)..Len(text) : text[j] = "]"})

RECURSIVE SubGroups(_, _, _, _)
\* re.sub(r"(?<!\[)\[([^]]*)]", self._field_repl, text), scanning from index
\* i: a span opens at a "[" that is not directly preceded by "[" and runs to
\* the first "]" after it.  A raised error ends the scan.
SubGroups(text, i, st, types) ==
    IF st.err.kind # "none" \/ i > Len(text) THEN st
    ELSE IF /\ text[i] = "["
            /\ (i = 1 \/ text[i - 1] # "[")
            /\ CloseAfter(text, i) # 0
         THEN SubGroups(text, CloseAfter(text, i) + 1,
                        field_repl(Slice(text, i, CloseAfter(text, i)), st, types),
                        types)
         ELSE SubGroups(text, i + 1, [st EXCEPT !.out = @ \o <<text[i]>>], types)

\* The last steps of _create_regex on the state st the re.sub left: the
\* doubled brackets and the flexible spaces.
Unescaped(st, flexible_spaces, unescaped) ==
    [regex |-> IF st.err.kind # "none" THEN <<>>
               ELSE IF flexible_spaces
               THEN ReplaceAll(unescaped, <<" ">>, <<" ", "+">>)
               ELSE unescaped,
     converters |-> st.converters,
     index |-> st.index,
     plan |-> st.plan,
     err |-> st.err]

Substituted(st, flexible_spaces) ==
    Unescaped(st, flexible_spaces,
              ReplaceAll(ReplaceAll(st.out, <<"[", "[">>, <<BSL, "[">>),
                         <<"]", "]">>, <<"]">>))

\* Matcher._create_regex: the compiled regex text, the converters, the
\* unnamed group index and the capture plan of `pattern`, or the error
\* raised; the converters and the index are those left behind at the raise.
create_regex(pattern, flexible_spaces, types) ==
    Substituted(SubGroups(TranslateWildcards(translate(pattern), 1), 1,
                          [out |-> <<>>, converters |-> <<>>, index |-> 0,
                           plan |-> <<>>, err |-> NoError],
                          types),
                flexible_spaces)

\* The built-in registrations the model keeps (registered_types.py registers
\* fifteen; these three are the ones the modelled patterns refer to), as
\* (name, regex as written, converter).
BuiltinRegistrations ==
    << [name |-> <<"i", "n", "t">>,
        regex |-> <<"[", "+", "-", "]", "?", "[", "0", "-", "9", "]", "+">>,
        converter |-> "int"],
       [name |-> <<"f", "l", "o", "a", "t">>,
        regex |-> <<"[", "+", "-", "]", "?", "(", "[", "0", "-", "9", "]", "*",
                    "[", ".", "]", ")", "?", "[", "0", "-", "9", "]", "+">>,
        converter |-> "float"],
       [name |-> <<"l", "e", "t", "t", "e", "r", "s">>,
        regex |-> <<"[", "^", BSL, "d", "_", BSL, "W", "]", "+">>,
        converter |-> "str"] >>

RECURSIVE RegisterAll(_, _, _)
RegisterAll(types, registrations, i) ==
    IF i > Len(registrations) THEN types
    ELSE RegisterAll(register_type(types, registrations[i].name,
                                   registrations[i].regex,
                                   registrations[i].converter),
                     registrations, i + 1)

\* registered_types once the module is imported.
BuiltinTypes == RegisterAll(<<>>, BuiltinRegistrations, 1)

(***************************************************************************)
(* The regular expression engine (Python's re, which the code calls        *)
(* through re.compile): a parser of the regex text.  Groups are numbered   *)
(* by their opening parenthesis; `names` holds, per group number, the      *)
(* group's name (empty for an unnamed group).                              *)
(***************************************************************************)

\* ASCII characters in code order (the subset the model's texts are made of).
AsciiOrder ==
    << "\t", "\n", "\f", "\r", " ", "!", "#", "$", "%", "&", "'", "(",
       ")", "*", "+", ",", "-", ".", "/", "0", "1", "2", "3", "4", "5", "6",
       "7", "8", "9", ":", ";", "<", "=", ">", "?", "@", "A", "B", "C", "D",
       "E", "F", "G", "H", "I", "J", "K", "L", "M", "N", "O", "P", "Q", "R",
       "S", "T", "U", "V", "W", "X", "Y", "Z", "[", BSL, "]", "^", "_",
       "a", "b", "c", "d", "e", "f", "g", "h", "i", "j", "k", "l", "m", "n",
       "o", "p", "q", "r", "s", "t", "u", "v", "w", "x", "y", "z", "{", "|",
       "}", "~" >>

\* The place of c in `order`, 0 if it has none.
PlaceIn(order, c) ==
    IF \E i \in 1..Len(order) : order[i] = c
    THEN CHOOSE i \in 1..Len(order) : order[i] = c
    ELSE 0

Ord(c) == PlaceIn(AsciiOrder, c)

RECURSIVE DecimalValue(_)
\* int(digits) of a text of decimal digits (0 for the empty text).
DecimalValue(digits) ==
    IF digits = <<>> THEN 0
    ELSE 10 * DecimalValue(SubSeq(digits, 1, Len(digits) - 1))
         + (Ord(digits[Len(digits)]) - Ord("0"))

EmptyNode == [t |-> "seq", items |-> <<>>]

ParseOk(node, i, names) == [ok |-> TRUE, node |-> node, i |-> i, names |-> names]

\* re.error (or a construct the model does not cover).
ParseFail == [ok |-> FALSE, node |-> EmptyNode, i |-> 0, names |-> <<>>]

\* The repeat operator at index i, if one stands there: "*", "+", "?",
\* "{n}", "{n,}", "{,m}" or "{n,m}" ("{}" and an unfinished "{" are
\* literal text).  max = -1 is no upper limit.
NoQuant(i) == [is |-> FALSE, min |-> 0, max |-> 0, i |-> i]

\* "{lo}" or "{lo,hi}" at index i; lo ends before loEnd, hi before hiEnd.
BracesAt(r, i, loEnd, hiEnd) ==
    IF CharAt(r, i + 1) # "}" /\ CharAt(r, hiEnd) = "}"
    THEN [is |-> TRUE,
          min |-> DecimalValue(Slice(r, i + 1, loEnd - 1)),
          max |-> IF hiEnd = loEnd THEN DecimalValue(Slice(r, i + 1, loEnd - 1))
                  ELSE IF hiEnd = loEnd + 1 THEN -1
                  ELSE DecimalValue(Slice(r, loEnd + 1, hiEnd - 1)),
          i |-> hiEnd + 1]
    ELSE NoQuant(i)

BracesFrom(r, i, loEnd) ==
    BracesAt(r, i, loEnd,
             IF CharAt(r, loEnd) = "," THEN RunEnd(r, loEnd + 1, Digits)
             ELSE loEnd)

QuantAt(r, i) ==
    IF CharAt(r, i) = "*" THEN [is |-> TRUE, min |-> 0, max |-> -1, i |-> i + 1]
    ELSE IF CharAt(r, i) = "+"
    THEN [is |-> TRUE, min |-> 1, max |-> -1, i |-> i + 1]
    ELSE IF CharAt(r, i) = "?"
    THEN [is |-> TRUE, min |-> 0, max |-> 1, i |-> i + 1]
    ELSE IF CharAt(r, i) = "{" THEN BracesFrom(r, i, RunEnd(r, i + 1, Digits))
    ELSE NoQuant(i)

ClassLetters == {"d", "w", "s", "D", "W", "S"}

\* str.isidentifier() of a group name.
IsIdentifier(name) ==
    /\ name # <<>>
    /\ name[1] \in Letters \cup {"_"}
    /\ AllIn(name, WordChars)

NameTaken(names, name) == \E k \in 1..Len(names) : names[k] = name

\* One member of a character set at index i: a class escape, an escaped
\* character or a plain character.  `cls` is "" for a single character.
SetCode(r, i) ==
    IF CharAt(r, i) = BSL
    THEN IF CharAt(r, i + 1) \in ClassLetters
         THEN [ok |-> TRUE, cls |-> r[i + 1], c |-> "", i |-> i + 2]
         ELSE IF i + 1 > Len(r) \/ r[i + 1] \in Letters \cup Digits
              THEN [ok |-> FALSE, cls |-> "", c |-> "", i |-> i]
              ELSE [ok |-> TRUE, cls |-> "", c |-> r[i + 1], i |-> i + 2]
    ELSE [ok |-> TRUE, cls |-> "", c |-> r[i], i |-> i + 1]

SetItem(cls, lo, hi) == [cls |-> cls, lo |-> lo, hi |-> hi]

RECURSIVE ParseSetItems(_, _, _, _, _, _)

\* A range "lo-hi" of a character set, c1 its lower and c2 its upper end.
ParseSetRange(r, names, neg, items, c1, c2) ==
    IF ~c2.ok \/ c1.cls # "" \/ c2.cls # "" \/ Ord(c2.c) < Ord(c1.c)
    THEN ParseFail
    ELSE ParseSetItems(r, c2.i, names, neg,
                       Append(items, SetItem("", c1.c, c2.c)), FALSE)

\* A member c1 of a character set: alone, the lower end of a range, or
\* followed by a "-" that closes the set.
ParseSetMember(r, names, neg, items, c1) ==
    IF ~c1.ok THEN ParseFail
    ELSE IF CharAt(r, c1.i) # "-"
    THEN ParseSetItems(r, c1.i, names, neg,
                       Append(items, SetItem(c1.cls, c1.c, c1.c)), FALSE)
    ELSE IF c1.i + 1 > Len(r) THEN ParseFail
    ELSE IF r[c1.i + 1] = "]"
    THEN ParseOk([t |-> "set", neg |-> neg,
                  items |-> items \o <<SetItem(c1.cls, c1.c, c1.c),
                                       SetItem("", "-", "-")>>],
                 c1.i + 2, names)
    ELSE ParseSetRange(r, names, neg, items, c1, SetCode(r, c1.i + 1))

\* The members of a character set from index i to its closing "]"; a "]"
\* that comes first is a member.
ParseSetItems(r, i, names, neg, items, first) ==
    IF i > Len(r) THEN ParseFail
    ELSE IF r[i] = "]" /\ ~first
    THEN ParseOk([t |-> "set", neg |-> neg, items |-> items], i + 1, names)
    ELSE ParseSetMember(r, names, neg, items, SetCode(r, i))

RECURSIVE ParseBranches(_, _, _, _)
RECURSIVE ParseSeq(_, _, _, _)
RECURSIVE ParseItem(_, _, _)
RECURSIVE ParseAtom(_, _, _)
RECURSIVE ParseGroup(_, _, _)

\* The group around `body`, which must end at the group's ")".
GroupNode(r, idx, body) ==
    IF ~body.ok \/ CharAt(r, body.i) # ")" THEN ParseFail
    ELSE ParseOk([t |-> "group", idx |-> idx, body |-> body.node],
                 body.i + 1, body.names)

\* The opening of a group at index i, "(", "(?:" or "(?P<name>": where its
\* body starts, the group names with this group's, and its number (0 for a
\* non-capturing group).
GroupOpening(r, i, names, close) ==
    IF CharAt(r, i + 1) # "?"
    THEN [ok |-> TRUE, i |-> i + 1, names |-> Append(names, <<>>),
          idx |-> Len(names) + 1]
    ELSE IF CharAt(r, i + 2) = ":"
    THEN [ok |-> TRUE, i |-> i + 3, names |-> names, idx |-> 0]
    ELSE IF /\ CharAt(r, i + 2) = "P" /\ CharAt(r, i + 3) = "<"
            /\ close # 0
            /\ IsIdentifier(Slice(r, i + 4, close - 1))
            /\ ~NameTaken(names, Slice(r, i + 4, close - 1))
    THEN [ok |-> TRUE, i |-> close + 1,
          names |-> Append(names, Slice(r, i + 4, close - 1)),
          idx |-> Len(names) + 1]
    ELSE [ok |-> FALSE, i |-> 0, names |-> names, idx |-> 0]

\* The body of a group that opened, up to its ")".
ParseBody(r, opening) ==
    IF ~opening.ok THEN ParseFail
    ELSE GroupNode(r, opening.idx,
                   ParseBranches(r, opening.i, opening.names, <<>>))

\* "(...)", "(?:...)" or "(?P<name>...)" at index i.
ParseGroup(r, i, names) ==
    ParseBody(r, GroupOpening(r, i, names,
                              FirstIndex({j \in (i + 4)..Len(r) : r[j] = ">"})))

ParseAtom(r, i, names) ==
    IF r[i] = "(" THEN ParseGroup(r, i, names)
    ELSE IF r[i] = "["
    THEN ParseSetItems(r, IF CharAt(r, i + 1) = "^" THEN i + 2 ELSE i + 1,
                       names, CharAt(r, i + 1) = "^", <<>>, TRUE)
    ELSE IF r[i] = BSL
    THEN IF CharAt(r, i + 1) \in ClassLetters
         THEN ParseOk([t |-> "cls", c |-> r[i + 1]], i + 2, names)
         ELSE IF i + 1 > Len(r) \/ r[i + 1] \in Letters \cup Digits
              THEN ParseFail
              ELSE ParseOk([t |-> "lit", c |-> r[i + 1]], i + 2, names)
    ELSE IF r[i] = "." THEN ParseOk([t |-> "any"], i + 1, names)
    ELSE IF r[i] = "^" THEN ParseOk([t |-> "bol"], i + 1, names)
    ELSE IF r[i] = "$" THEN ParseOk([t |-> "eol"], i + 1, names)
    ELSE IF QuantAt(r, i).is THEN ParseFail
    ELSE ParseOk([t |-> "lit", c |-> r[i]], i + 1, names)

\* The atom `a` under the repeat operator q; j is the index after the
\* operator and its "?", if it is lazy.
Repeated(r, a, q, j) ==
    IF \/ a.node.t \in {"bol", "eol"}
       \/ CharAt(r, q.i) = "+"
       \/ QuantAt(r, j).is
       \/ (q.max # -1 /\ q.max < q.min)
    THEN ParseFail
    ELSE ParseOk([t |-> "rep", min |-> q.min, max |-> q.max,
                  lazy |-> j # q.i, body |-> a.node], j, a.names)

\* The atom `a` and the repeat operator q that may follow it.
WithQuant(r, a, q) ==
    IF ~q.is THEN a
    ELSE Repeated(r, a, q, IF CharAt(r, q.i) = "?" THEN q.i + 1 ELSE q.i)

AfterAtom(r, a) == IF ~a.ok THEN a ELSE WithQuant(r, a, QuantAt(r, a.i))

\* An atom and the repeat operator that may follow it.
ParseItem(r, i, names) == AfterAtom(r, ParseAtom(r, i, names))

AfterItem(r, items, a) ==
    IF ~a.ok THEN a ELSE ParseSeq(r, a.i, a.names, Append(items, a.node))

\* A sequence of items, up to a "|", a ")" or the end.
ParseSeq(r, i, names, items) ==
    IF i > Len(r) \/ r[i] \in {"|", ")"}
    THEN ParseOk([t |-> "seq", items |-> items], i, names)
    ELSE AfterItem(r, items, ParseItem(r, i, names))

AfterBranch(r, branches, b) ==
    IF ~b.ok THEN b
    ELSE IF CharAt(r, b.i) = "|"
    THEN ParseBranches(r, b.i + 1, b.names, Append(branches, b.node))
    ELSE ParseOk([t |-> "alt", items |-> Append(branches, b.node)], b.i, b.names)

\* The alternatives, separated by "|".
ParseBranches(r, i, names, branches) ==
    AfterBranch(r, branches, ParseSeq(r, i, names, <<>>))

\* The parse must reach the end of the text.
WholeText(regex, p) == IF p.ok /\ p.i = Len(regex) + 1 THEN p ELSE ParseFail

\* re.compile(regex): the syntax tree and the group names, or not ok.
re_compile(regex) == WholeText(regex, ParseBranches(regex, 1, <<>>, <<>>))

(***************************************************************************)
(* The regular expression engine: a backtracking matcher.  MatchNode gives *)
(* every way `node` matches `string` from index i (1-based), as a sequence *)
(* of [i |-> the index after the match, caps |-> the group spans], in the  *)
(* order in which the engine tries them: the first alternative first, a    *)
(* greedy repeat longest first.  A span is <<start, end>>, 0-based as      *)
(* re.Match.span gives it, and <<-1, -1>> for a group that did not         *)
(* participate.                                                            *)
(***************************************************************************)

NoSpan == <<-1, -1>>

InClass(c, cls) ==
    IF cls = "d" THEN c \in Digits
    ELSE IF cls = "w" THEN c \in WordChars
    ELSE IF cls = "s" THEN c \in SpaceChars
    ELSE IF cls = "D" THEN c \notin Digits
    ELSE IF cls = "W" THEN c \notin WordChars
    ELSE c \notin SpaceChars

InSetItem(c, item) ==
    IF item.cls # "" THEN InClass(c, item.cls)
    ELSE Ord(item.lo) <= Ord(c) /\ Ord(c) <= Ord(item.hi) /\ Ord(c) # 0

\* Whether the single-character node matches the character c.
MatchesChar(node, c) ==
    IF node.t = "lit" THEN c = node.c
    ELSE IF node.t = "any" THEN c # "\n"
    ELSE IF node.t = "cls" THEN InClass(c, node.c)
    ELSE (\E k \in 1..Len(node.items) : InSetItem(c, node.items[k])) # node.neg

\* The matches `inner` of a group's body that started at index i, with the
\* group's span set (a non-capturing group has the number 0).
Captured(idx, i, inner) ==
    IF idx = 0 THEN inner
    ELSE [n \in 1..Len(inner) |->
             [i |-> inner[n].i,
              caps |-> [inner[n].caps EXCEPT ![idx] = <<i - 1, inner[n].i - 1>>]]]

RECURSIVE MatchNode(_, _, _, _)
RECURSIVE MatchSeq(_, _, _, _, _)
RECURSIVE ContinueSeq(_, _, _, _, _)
RECURSIVE MatchAlt(_, _, _, _, _)
RECURSIVE MatchRep(_, _, _, _, _)
RECURSIVE ContinueRep(_, _, _, _, _, _)

MatchSeq(items, k, string, i, caps) ==
    IF k > Len(items) THEN <<[i |-> i, caps |-> caps]>>
    ELSE ContinueSeq(items, k, string, MatchNode(items[k], string, i, caps), 1)

ContinueSeq(items, k, string, results, n) ==
    IF n > Len(results) THEN <<>>
    ELSE MatchSeq(items, k + 1, string, results[n].i, results[n].caps)
         \o ContinueSeq(items, k, string, results, n + 1)

MatchAlt(branches, k, string, i, caps) ==
    IF k > Len(branches) THEN <<>>
    ELSE MatchNode(branches[k], string, i, caps)
         \o MatchAlt(branches, k + 1, string, i, caps)

\* A lazy repeat tries to stop first, a greedy one to go on.
InOrder(lazy, more, stop) == IF lazy THEN stop \o more ELSE more \o stop

\* A repeat that has made `count` iterations: one more iteration, or stop.
MatchRep(node, count, string, i, caps) ==
    InOrder(node.lazy,
            IF node.max = -1 \/ count < node.max
            THEN ContinueRep(node, count, string, i,
                             MatchNode(node.body, string, i, caps), 1)
            ELSE <<>>,
            IF count >= node.min THEN <<[i |-> i, caps |-> caps]>> ELSE <<>>)

\* An iteration that matched nothing ends the repeat once `min` is reached.
ContinueRep(node, count, string, i, results, n) ==
    IF n > Len(results) THEN <<>>
    ELSE (IF results[n].i > i \/ count < node.min
          THEN MatchRep(node, count + 1, string, results[n].i, results[n].caps)
          ELSE <<[i |-> i, caps |-> results[n].caps]>>)
         \o ContinueRep(node, count, string, i, results, n + 1)

MatchNode(node, string, i, caps) ==
    IF node.t \in {"lit", "any", "cls", "set"}
    THEN IF i <= Len(string) /\ MatchesChar(node, string[i])
         THEN <<[i |-> i + 1, caps |-> caps]>> ELSE <<>>
    ELSE IF node.t = "bol"
    THEN IF i = 1 THEN <<[i |-> i, caps |-> caps]>> ELSE <<>>
    ELSE IF node.t = "eol"
    THEN IF \/ i = Len(string) + 1
            \/ (i = Len(string) /\ string[i] = "\n")
         THEN <<[i |-> i, caps |-> caps]>> ELSE <<>>
    ELSE IF node.t = "group"
    THEN Captured(node.idx, i, MatchNode(node.body, string, i, caps))
    ELSE IF node.t = "seq" THEN MatchSeq(node.items, 1, string, i, caps)
    ELSE IF node.t = "alt" THEN MatchAlt(node.items, 1, string, i, caps)
    ELSE MatchRep(node, 0, string, i, caps)

\* A re.Match object (matched = FALSE stands for None).
NoMatch(string) ==
    [matched |-> FALSE, string |-> string, span |-> NoSpan,
     spans |-> <<>>, names |-> <<>>]

MatchObject(compiled, string, start, result) ==
    [matched |-> TRUE, string |-> string, span |-> <<start - 1, result.i - 1>>,
     spans |-> result.caps, names |-> compiled.names]

\* Every way the compiled regex matches from index `start`.
MatchesFrom(compiled, string, start) ==
    MatchNode(compiled.node, string, start,
              [k \in 1..Len(compiled.names) |-> NoSpan])

\* The first of `results`, the matches from index `start`, as a match.
FirstOf(compiled, string, start, results) ==
    IF results = <<>> THEN NoMatch(string)
    ELSE MatchObject(compiled, string, start, results[1])

\* Pattern.match(string): the first match that starts at the string's start.
re_match(compiled, string) ==
    FirstOf(compiled, string, 1, MatchesFrom(compiled, string, 1))

\* Those of `results` that end at the end of the string.
Whole(string, results) ==
    SelectSeq(results, LAMBDA result : result.i = Len(string) + 1)

\* Pattern.fullmatch(string): the first match that spans the whole string.
re_fullmatch(compiled, string) ==
    FirstOf(compiled, string, 1, Whole(string, MatchesFrom(compiled, string, 1)))

RECURSIVE SearchFrom(_, _, _)

SearchAt(compiled, string, start, results) ==
    IF results = <<>> THEN SearchFrom(compiled, string, start + 1)
    ELSE MatchObject(compiled, string, start, results[1])

\* The first match that starts at index `start` or later (positions are
\* tried left to right).
SearchFrom(compiled, string, start) ==
    IF start > Len(string) + 1 THEN NoMatch(string)
    ELSE SearchAt(compiled, string, start, MatchesFrom(compiled, string, start))

\* Pattern.search(string)
re_search(compiled, string) == SearchFrom(compiled, string, 1)

\* Those of `results`, the matches from index `start`, that the scanner
\* accepts: after an empty match the next one must not be empty at the same
\* index.
Advancing(results, start, must_advance) ==
    IF must_advance THEN SelectSeq(results, LAMBDA result : result.i > start)
    ELSE results

RECURSIVE FindIter(_, _, _, _, _)

\* The scan at index `start`: its first match and the scan after it, or the
\* scan at the next index.
FindAt(compiled, string, pos, start, results) ==
    IF results = <<>> THEN FindIter(compiled, string, pos, start + 1, FALSE)
    ELSE <<MatchObject(compiled, string, start, results[1])>>
         \o FindIter(compiled, string, results[1].i, results[1].i,
                     results[1].i = start)

\* The matches of the scan that resumed at index pos and now tries index
\* `start`.
FindIter(compiled, string, pos, start, must_advance) ==
    IF start > Len(string) + 1 THEN <<>>
    ELSE FindAt(compiled, string, pos, start,
                Advancing(MatchesFrom(compiled, string, start), start,
                          must_advance))

\* Pattern.finditer(string): the non-overlapping matches, left to right.
re_finditer(compiled, string) == FindIter(compiled, string, 1, 1, FALSE)

\* match.group(k) for k >= 1: the text of group k (its span must be set).
GroupText(match, k) ==
    Slice(match.string, match.spans[k][1] + 1, match.spans[k][2])

Participated(match, k) == match.spans[k] # NoSpan

(***************************************************************************)
(* Values and converters.  A value is a str, an int, a float or None; a    *)
(* float is n / 10^e with the trailing zeros of the fraction dropped.      *)
(***************************************************************************)

StrValue(text) == [ty |-> "str", s |-> text, n |-> 0, e |-> 0]
IntValue(n) == [ty |-> "int", s |-> <<>>, n |-> n, e |-> 0]
FloatValue(n, e) == [ty |-> "float", s |-> <<>>, n |-> n, e |-> e]
NoneValue == [ty |-> "None", s |-> <<>>, n |-> 0, e |-> 0]

Signed(text) == text # <<>> /\ text[1] \in {"+", "-"}
Unsigned(text) == IF Signed(text) THEN Tail(text) ELSE text
Sign(text) == IF text # <<>> /\ text[1] = "-" THEN -1 ELSE 1

RECURSIVE StripZeros(_)
StripZeros(digits) ==
    IF digits # <<>> /\ digits[Len(digits)] = "0"
    THEN StripZeros(SubSeq(digits, 1, Len(digits) - 1)) ELSE digits

\* The converter raised ValueError.
Fails == [ok |-> FALSE, val |-> NoneValue]

\* int(text): a sign and decimal digits.
ConvertInt(text, body) ==
    IF body # <<>> /\ AllIn(body, Digits)
    THEN [ok |-> TRUE, val |-> IntValue(Sign(text) * DecimalValue(body))]
    ELSE Fails

\* float(text): a sign and decimal digits with at most one "." at index
\* `dot` of `body` (0: none), which needs a digit on one side.
ConvertFloat(text, body, dot) ==
    IF dot = 0
    THEN IF body # <<>> /\ AllIn(body, Digits)
         THEN [ok |-> TRUE, val |-> FloatValue(Sign(text) * DecimalValue(body), 0)]
         ELSE Fails
    ELSE IF /\ AllIn(Slice(body, 1, dot - 1), Digits)
            /\ AllIn(Slice(body, dot + 1, Len(body)), Digits)
            /\ Len(body) > 1
         THEN [ok |-> TRUE,
               val |-> FloatValue(
                   Sign(text) * DecimalValue(
                       Slice(body, 1, dot - 1)
                       \o StripZeros(Slice(body, dot + 1, Len(body)))),
                   Len(StripZeros(Slice(body, dot + 1, Len(body)))))]
         ELSE Fails

FirstDot(body) == FirstIndex({i \in 1..Len(body) : body[i] = "."})

\* converter(text): [ok, val], not ok when the converter raises ValueError.
\* str is the text itself, len its length.
Convert(converter, text) ==
    IF converter = "int" THEN ConvertInt(text, Unsigned(text))
    ELSE IF converter = "float"
    THEN ConvertFloat(text, Unsigned(text), FirstDot(Unsigned(text)))
    ELSE IF converter = "len"
    THEN [ok |-> TRUE, val |-> IntValue(Len(text))]
    ELSE [ok |-> TRUE, val |-> StrValue(text)]

(***************************************************************************)
(* The Result Extractor: Matcher._grouplist and Matcher._create_result.    *)
(***************************************************************************)

\* match.group(k), None for a group that did not participate.
GroupValue(match, k) ==
    IF Participated(match, k) THEN StrValue(GroupText(match, k)) ELSE NoneValue

RECURSIVE SelectGroups(_, _, _)
\* The values of the groups of `match` whose number is in `keep`, in group
\* order, from group k on.
SelectGroups(match, keep, k) ==
    IF k > Len(match.spans) THEN <<>>
    ELSE (IF k \in keep THEN <<GroupValue(match, k)>> ELSE <<>>)
         \o SelectGroups(match, keep, k + 1)

\* A faulty _grouplist: the groups that did not participate are left out.
GrouplistParticipating(match) ==
    SelectGroups(match, {k \in 1..Len(match.names) :
                            match.names[k] = <<>> /\ Participated(match, k)}, 1)

\* Matcher._grouplist(match): the value of every group that has no name
\* (None included), in group order.
grouplist(match) ==
    SelectGroups(match, {k \in 1..Len(match.names) : match.names[k] = <<>>}, 1)

RECURSIVE GroupDict(_, _)
\* {key: value for key, value in match.groupdict().items() if value is not
\* None}, as an insertion-ordered dict.
GroupDict(match, k) ==
    IF k > Len(match.names) THEN <<>>
    ELSE (IF match.names[k] # <<>> /\ Participated(match, k)
          THEN <<[name |-> match.names[k], val |-> GroupValue(match, k)]>>
          ELSE <<>>) \o GroupDict(match, k + 1)

\* A MatchResult (the dict, .unnamed and ._matches), with the exception the
\* extraction raised, if any, and the converter calls it made.
Result(named, unnamed, matches) ==
    [named |-> named, unnamed |-> unnamed, matches |-> matches,
     err |-> NoError, calls |-> <<>>]

EmptyResult == Result(<<>>, <<>>, <<>>)

Raised(err) == [EmptyResult EXCEPT !.err = err]

\* result[key] = converter(result[key]) for the named entry at place k of
\* the dict (0: the key is missing); c is what the converter gives.
ConvertNamed(result, entry, k, c) ==
    IF k = 0
    THEN [result EXCEPT !.err = Exception("KeyError", <<>>, <<>>, entry.key.name)]
    ELSE [result EXCEPT
             !.calls = Append(@, [conv |-> entry.conv,
                                  text |-> result.named[k].val.s]),
             !.named[k].val = IF c.ok THEN c.val ELSE @,
             !.err = IF c.ok THEN @
                     ELSE Exception("ConversionError", <<>>, <<>>, <<>>)]

\* unnamed[key] = raw_value and converter(raw_value): None and "" stay; c is
\* what the converter gives.
ConvertUnnamed(result, entry, raw, c) ==
    IF raw.ty = "None" \/ raw.s = <<>> THEN result
    ELSE [result EXCEPT
             !.calls = Append(@, [conv |-> entry.conv, text |-> raw.s]),
             !.unnamed[entry.key.idx + 1] = IF c.ok THEN c.val ELSE @,
             !.err = IF c.ok THEN @
                     ELSE Exception("ConversionError", <<>>, <<>>, <<>>)]

NamedText(result, k) == IF k = 0 THEN <<>> ELSE result.named[k].val.s

ConvertNamedAt(result, entry, k) ==
    ConvertNamed(result, entry, k, Convert(entry.conv, NamedText(result, k)))

ConvertUnnamedRaw(result, entry, raw) ==
    ConvertUnnamed(result, entry, raw, Convert(entry.conv, raw.s))

\* One pass of the loop over self.converters.items().
ApplyConverter(result, entry) ==
    IF entry.key.named
    THEN ConvertNamedAt(result, entry, KeyIndex(result.named, entry.key.name))
    ELSE IF entry.key.idx >= Len(result.unnamed)
         THEN [result EXCEPT !.err = Exception("IndexError", <<>>, <<>>, <<>>)]
         ELSE ConvertUnnamedRaw(result, entry, result.unnamed[entry.key.idx + 1])

RECURSIVE ApplyConverters(_, _, _)
ApplyConverters(result, converters, k) ==
    IF k > Len(converters) \/ result.err.kind # "none" THEN result
    ELSE ApplyConverters(ApplyConverter(result, converters[k]), converters, k + 1)

\* Matcher._create_result(single_match) with self.converters = converters.
create_result(single_match, converters) ==
    IF ~single_match.matched THEN EmptyResult
    ELSE ApplyConverters(Result(GroupDict(single_match, 1),
                                grouplist(single_match),
                                <<single_match>>),
                         converters, 1)

\* MatchResult.__bool__
Truthy(result) == result.matches # <<>>

(***************************************************************************)
(* The Matcher: its pattern cache and its match operations.                *)
(***************************************************************************)

\* Matcher._regex is None.
NoRegex == [isNone |-> TRUE, text |-> <<>>]

CachedRegex(text) == [isNone |-> FALSE, text |-> text]

\* Matcher.__init__(pattern, flexible_spaces=flexible_spaces)
Matcher(pattern, flexible_spaces) ==
    [pattern |-> pattern,
     regex |-> NoRegex,
     converters |-> <<>>,
     unnamed_group_index |-> 0,
     flexible_spaces |-> flexible_spaces]

\* A faulty setter: the cached regex outlives the pattern it was made from.
PatternSetterKeeping(m, value) == [m EXCEPT !.pattern = value]

\* The pattern setter: self._pattern = value; self._regex = None.
pattern_setter(m, value) == [m EXCEPT !.pattern = value, !.regex = NoRegex]

\* A faulty assignment: what a failed compile had built is cached.
CompiledCachingError(m, c) ==
    [m |-> [m EXCEPT !.regex = CachedRegex(c.regex),
                     !.converters = c.converters,
                     !.unnamed_group_index = c.index],
     err |-> c.err,
     text |-> c.regex,
     compiled |-> TRUE]

\* self._regex = self._create_regex(self.pattern), c what _create_regex
\* gives: a raise leaves _regex None and the converters as the compile left
\* them.
Compiled(m, c) ==
    [m |-> [m EXCEPT !.regex = IF c.err.kind = "none"
                               THEN CachedRegex(c.regex) ELSE NoRegex,
                     !.converters = c.converters,
                     !.unnamed_group_index = c.index],
     err |-> c.err,
     text |-> c.regex,
     compiled |-> TRUE]

\* A faulty property: it compiles at every access.
RegexPropertyRecompiling(m, types) ==
    Compiled(m, create_regex(m.pattern, m.flexible_spaces, types))

\* The regex property: compile on a cache miss and keep the text.  Gives the
\* Matcher afterwards, the error raised and the regex text returned.
regex_property(m, types) ==
    IF m.regex.isNone
    THEN Compiled(m, create_regex(m.pattern, m.flexible_spaces, types))
    ELSE [m |-> m, err |-> NoError, text |-> m.regex.text, compiled |-> FALSE]

Modes == {"match", "match_start", "match_end", "search"}

\* The regex text each operation hands to re.compile.
ModeRegex(mode, regex) ==
    IF mode = "match_start" THEN <<"^">> \o regex
    ELSE IF mode = "match_end" THEN regex \o <<"$">>
    ELSE regex

\* The engine call each operation makes.
ModeMatch(mode, compiled, string) ==
    IF mode = "match" THEN re_fullmatch(compiled, string)
    ELSE IF mode = "match_start" THEN re_match(compiled, string)
    ELSE re_search(compiled, string)

\* self._create_result(single_match), with the Matcher as the regex property
\* left it.
Created(got, single_match) ==
    [m |-> got.m, single_match |-> single_match,
     result |-> create_result(single_match, got.m.converters),
     compiled |-> got.compiled]

\* The engine call on the compiled regex (re.error if it does not compile).
Matched(got, mode, string, compiled) ==
    IF ~compiled.ok
    THEN [m |-> got.m, single_match |-> NoMatch(string),
          result |-> Raised(Exception("re.error", <<>>, <<>>, <<>>)),
          compiled |-> got.compiled]
    ELSE Created(got, ModeMatch(mode, compiled, string))

\* The operation once self.regex is read: its raise ends the operation.
WithRegex(got, mode, string) ==
    IF got.err.kind # "none"
    THEN [m |-> got.m, single_match |-> NoMatch(string), result |-> Raised(got.err),
          compiled |-> got.compiled]
    ELSE Matched(got, mode, string, re_compile(ModeRegex(mode, got.text)))

\* Matcher.match / match_start / match_end / search on `string`: the Matcher
\* afterwards, the underlying match and the MatchResult (or the exception).
matcher_call(m, mode, string, types) ==
    WithRegex(regex_property(m, types), mode, string)

\* What search_all gives: the Matcher afterwards, the MatchResultList (or
\* the exception raised).
ResultList(m, results, err, compiled) ==
    [m |-> m, results |-> results, err |-> err, compiled |-> compiled]

\* The first exception among the results, none if all were created.
FirstRaised(results) ==
    IF \A n \in 1..Len(results) : results[n].err.kind = "none" THEN NoError
    ELSE results[FirstIndex({n \in 1..Len(results) :
                                results[n].err.kind # "none"})].err

\* MatchResultList(self._create_result(match_obj) for match_obj in found)
CreatedAll(got, results) ==
    IF FirstRaised(results).kind # "none"
    THEN ResultList(got.m, <<>>, FirstRaised(results), got.compiled)
    ELSE ResultList(got.m, results, NoError, got.compiled)

FoundAll(got, found) ==
    CreatedAll(got, [n \in 1..Len(found) |->
                        create_result(found[n], got.m.converters)])

SearchedAll(got, string, compiled) ==
    IF ~compiled.ok
    THEN ResultList(got.m, <<>>, Exception("re.error", <<>>, <<>>, <<>>),
                    got.compiled)
    ELSE FoundAll(got, re_finditer(compiled, string))

SearchAllWithRegex(got, string) ==
    IF got.err.kind # "none"
    THEN ResultList(got.m, <<>>, got.err, got.compiled)
    ELSE SearchedAll(got, string, re_compile(got.text))

\* Matcher.search_all(string)
matcher_search_all(m, string, types) ==
    SearchAllWithRegex(regex_property(m, types), string)

(***************************************************************************)
(* The Multi-Pattern Combinator: MultiMatcher._matcher.collect_results.    *)
(***************************************************************************)

RECURSIVE DictUpdateKeeping(_, _, _)
\* A faulty update: a key the dict already holds keeps its value.
DictUpdateKeeping(named, other, k) ==
    IF k > Len(other) THEN named
    ELSE DictUpdateKeeping(IF KeyIndex(named, other[k].name) = 0
                           THEN DictSet(named, other[k]) ELSE named,
                           other, k + 1)

RECURSIVE DictUpdate(_, _, _)
\* result.update(sub_result)
DictUpdate(named, other, k) ==
    IF k > Len(other) THEN named
    ELSE DictUpdate(DictSet(named, other[k]), other, k + 1)

\* A faulty merge: the sub_result's matches are not added to the result's.
MergeWithoutMatches(result, sub_result) ==
    [result EXCEPT !.named = DictUpdate(@, sub_result.named, 1),
                   !.unnamed = @ \o sub_result.unnamed,
                   !.calls = @ \o sub_result.calls]

\* The merge of a successful sub_result into result.
MergeResult(result, sub_result) ==
    [result EXCEPT !.named = DictUpdate(@, sub_result.named, 1),
                   !.unnamed = @ \o sub_result.unnamed,
                   !.matches = @ \o sub_result.matches,
                   !.calls = @ \o sub_result.calls]

RECURSIVE CollectLoop(_, _, _, _, _, _, _, _)

\* A faulty pass: a failure under strict leaves the loop with the result
\* accumulated so far.
CollectStepLeaving(ms, strict_, mode, string, types, k, result, ran, sub) ==
    IF sub.result.err.kind # "none"
    THEN [matchers |-> ms,
          result |-> [sub.result EXCEPT !.calls = result.calls \o @],
          ran |-> ran]
    ELSE IF Truthy(sub.result)
    THEN CollectLoop(ms, strict_, mode, string, types, k + 1,
                     MergeResult(result, sub.result), ran)
    ELSE IF strict_
    THEN [matchers |-> ms, result |-> result, ran |-> ran]
    ELSE CollectLoop(ms, strict_, mode, string, types, k + 1, result, ran)

\* One pass of the loop: sub is what matcher k's call gave.
CollectStep(ms, strict_, mode, string, types, k, result, ran, sub) ==
    IF sub.result.err.kind # "none"
    THEN [matchers |-> ms,
          result |-> [sub.result EXCEPT !.calls = result.calls \o @],
          ran |-> ran]
    ELSE IF Truthy(sub.result)
    THEN CollectLoop(ms, strict_, mode, string, types, k + 1,
                     MergeResult(result, sub.result), ran)
    ELSE IF strict_
    THEN [matchers |-> ms, result |-> sub.result, ran |-> ran]
    ELSE CollectLoop(ms, strict_, mode, string, types, k + 1, result, ran)

\* Matcher k's call, kept with the matchers.
CollectCall(ms, strict_, mode, string, types, k, result, ran, sub) ==
    CollectStep([ms EXCEPT ![k] = sub.m], strict_, mode, string, types, k,
                result, Append(ran, k), sub)

\* The loop over self.matchers[1:], at matcher k, with the matchers as the
\* calls so far left them, the accumulated result and the matchers run.
CollectLoop(ms, strict_, mode, string, types, k, result, ran) ==
    IF k > Len(ms) THEN [matchers |-> ms, result |-> result, ran |-> ran]
    ELSE CollectCall(ms, strict_, mode, string, types, k, result, ran,
                     matcher_call(ms[k], mode, string, types))

\* The first matcher's call gave `first`: a failure under strict ends here.
CollectFirst(ms, strict_, mode, string, types, first) ==
    IF first.result.err.kind # "none" \/ (~Truthy(first.result) /\ strict_)
    THEN [matchers |-> [ms EXCEPT ![1] = first.m], result |-> first.result,
          ran |-> <<1>>]
    ELSE CollectLoop([ms EXCEPT ![1] = first.m], strict_, mode, string, types, 2,
                     first.result, <<1>>)

\* collect_results(self, string) for the operation `mode`.
collect_results(ms, strict_, mode, string, types) ==
    CollectFirst(ms, strict_, mode, string, types,
                 matcher_call(ms[1], mode, string, types))

\* The MatchResultList has no update method: result.update(sub_result)
\* raises.
NoUpdateError == Exception("AttributeError", <<>>, <<>>, <<"u", "p", "d", "a", "t", "e">>)

\* What collect_results gives for search_all.
Collected(ms, results, err, ran) ==
    [matchers |-> ms, results |-> results, err |-> err, ran |-> ran]

RECURSIVE CollectAllLoop(_, _, _, _, _, _, _)

\* One pass of the loop for search_all: sub is what matcher k's search_all
\* gave.
CollectAllStep(ms, strict_, string, types, k, results, ran, sub) ==
    IF sub.err.kind # "none" THEN Collected(ms, <<>>, sub.err, ran)
    ELSE IF sub.results # <<>> THEN Collected(ms, <<>>, NoUpdateError, ran)
    ELSE IF strict_ THEN Collected(ms, sub.results, NoError, ran)
    ELSE CollectAllLoop(ms, strict_, string, types, k + 1, results, ran)

CollectAllCall(ms, strict_, string, types, k, results, ran, sub) ==
    CollectAllStep([ms EXCEPT ![k] = sub.m], strict_, string, types, k,
                   results, Append(ran, k), sub)

\* The loop over self.matchers[1:] for search_all, at matcher k.
CollectAllLoop(ms, strict_, string, types, k, results, ran) ==
    IF k > Len(ms) THEN Collected(ms, results, NoError, ran)
    ELSE CollectAllCall(ms, strict_, string, types, k, results, ran,
                        matcher_search_all(ms[k], string, types))

CollectAllFirst(ms, strict_, string, types, first) ==
    IF first.err.kind # "none" \/ (first.results = <<>> /\ strict_)
    THEN Collected([ms EXCEPT ![1] = first.m], first.results, first.err, <<1>>)
    ELSE CollectAllLoop([ms EXCEPT ![1] = first.m], strict_, string, types, 2,
                        first.results, <<1>>)

\* collect_results(self, string) for search_all.
collect_search_all(ms, strict_, string, types) ==
    CollectAllFirst(ms, strict_, string, types,
                    matcher_search_all(ms[1], string, types))

(***************************************************************************)
(* MatchResult.replace with positional replacement values (strs).          *)
(***************************************************************************)

\* What replace gives: the string it returns, or the exception it raises.
Replaced(text, err) == [text |-> text, err |-> err]

NotReplaced == Replaced(<<>>, NoError)

\* ValueError("Provide one or many strings, a list or a dict of ...")
NoValuesError ==
    Exception("ValueError", <<>>, <<>>, <<"P", "r", "o", "v", "i", "d", "e">>)

\* ValueError("replace() can only be used on successful match")
NotSuccessfulError ==
    Exception("ValueError", <<>>, <<>>,
              <<"s", "u", "c", "c", "e", "s", "s", "f", "u", "l">>)

\* range(match.lastindex) with lastindex None:
\* TypeError("'NoneType' object cannot be interpreted as an integer")
RangeOfNoneError ==
    Exception("TypeError", <<>>, <<>>,
              <<"N", "o", "n", "e", "T", "y", "p", "e">>)

\* match.lastindex, 0 standing for None: the group that closed last, which
\* for groups that are neither nested nor repeated is the participating
\* group of the highest index.
lastindex(match) ==
    LET closed == {k \in 1..Len(match.spans) : Participated(match, k)}
    IN  IF closed = {} THEN 0
        ELSE CHOOSE k \in closed : \A j \in closed : j <= k

\* Whether str a sorts before str b.
RECURSIVE TextLess(_, _)

TextLess(a, b) ==
    IF b = <<>> THEN FALSE
    ELSE IF a = <<>> THEN TRUE
    ELSE IF Head(a) # Head(b) THEN Ord(Head(a)) < Ord(Head(b))
    ELSE TextLess(Tail(a), Tail(b))

\* The tuple (*match.span(i + 1), value).
ReplaceSpan(span, value) == [start |-> span[1], end |-> span[2], value |-> value]

\* Whether tuple a sorts before tuple b.
SpanLess(a, b) ==
    IF a.start # b.start THEN a.start < b.start
    ELSE IF a.end # b.end THEN a.end < b.end
    ELSE TextLess(a.value, b.value)

\* spans.sort()
RECURSIVE SortSpans(_)

SortSpans(spans) ==
    IF spans = <<>> THEN <<>>
    ELSE LET sorted == SortSpans(SubSeq(spans, 1, Len(spans) - 1))
             span == spans[Len(spans)]
         IN  SelectSeq(sorted, LAMBDA s : ~SpanLess(span, s))
             \o <<span>>
             \o SelectSeq(sorted, LAMBDA s : SpanLess(span, s))

\* A bound of a slice of a sequence of length n, as Python normalises it.
SliceBound(n, a) ==
    IF a < 0 THEN (IF a + n < 0 THEN 0 ELSE a + n)
    ELSE IF a > n THEN n ELSE a

\* text[a:b]
PySlice(text, a, b) ==
    Slice(text, SliceBound(Len(text), a) + 1, SliceBound(Len(text), b))

\* The loop of MatchResult._string_with_replacements from span k on.
RECURSIVE Replacing(_, _, _, _, _)

Replacing(original_string, spans, k, previous_end, result_string) ==
    IF k > Len(spans)
    THEN result_string
         \o PySlice(original_string, previous_end, Len(original_string))
    ELSE Replacing(original_string, spans, k + 1, spans[k].end,
                   result_string
                   \o PySlice(original_string, previous_end, spans[k].start)
                   \o spans[k].value)

\* MatchResult._string_with_replacements(original_string, spans)
string_with_replacements(original_string, spans) ==
    Replacing(original_string, spans, 1, 0, <<>>)

\* The loops of _replace_as_long_as_values_last from group i of match k on;
\* next(values) has given Len(spans) values so far, and StopIteration ends
\* both loops.
RECURSIVE CollectSpans(_, _, _, _, _)

CollectSpans(matches, k, i, values, spans) ==
    IF k > Len(matches) THEN [spans |-> spans, err |-> NoError]
    ELSE IF lastindex(matches[k]) = 0
    THEN [spans |-> spans, err |-> RangeOfNoneError]
    ELSE IF i > lastindex(matches[k])
    THEN CollectSpans(matches, k + 1, 1, values, spans)
    ELSE IF Len(spans) = Len(values) THEN [spans |-> spans, err |-> NoError]
    ELSE CollectSpans(matches, k, i + 1, values,
                      Append(spans, ReplaceSpan(matches[k].spans[i],
                                                values[Len(spans) + 1])))

\* The return of _replace_as_long_as_values_last, given what its loops give.
ReplacedWith(original_string, collected) ==
    IF collected.err.kind # "none" THEN Replaced(<<>>, collected.err)
    ELSE Replaced(string_with_replacements(original_string,
                                           SortSpans(collected.spans)),
                  NoError)

\* MatchResult._replace_as_long_as_values_last(original_string, values)
replace_as_long_as_values_last(result, original_string, values) ==
    ReplacedWith(original_string,
                 CollectSpans(result.matches, 1, 1, values, <<>>))

\* MatchResult.replace(*with_values)
replace(result, with_values) ==
    IF with_values = <<>> THEN Replaced(<<>>, NoValuesError)
    ELSE IF ~Truthy(result) THEN Replaced(<<>>, NotSuccessfulError)
    ELSE replace_as_long_as_values_last(result, result.matches[1].string,
                                        with_values)

(***************************************************************************)
(* The inputs of the model: patterns, input strings and the registrations  *)
(* a caller makes.                                                         *)
(***************************************************************************)

\* Matcher()'s default pattern, "*"
PatDefault ==
    <<"*">>

\* "[a:int] [:int]"
PatIntInt ==
    <<"[", "a", ":", "i", "n", "t", "]", " ", "[", ":", "i", "n", "t",
     "]">>

\* "[:opt]x[n:opt]"
PatOpt ==
    <<"[", ":", "o", "p", "t", "]", "x", "[", "n", ":", "o", "p", "t",
     "]">>

\* "[x:bogus]"
PatBogus ==
    <<"[", "x", ":", "b", "o", "g", "u", "s", "]">>

\* "[:2][w:1]"
PatWidth ==
    <<"[", ":", "2", "]", "[", "w", ":", "1", "]">>

\* "[:int]|[:float]"
PatEither ==
    <<"[", ":", "i", "n", "t", "]", "|", "[", ":", "f", "l", "o", "a",
     "t", "]">>

\* "v:[q:float]|[l]"
PatValue ==
    <<"v", ":", "[", "q", ":", "f", "l", "o", "a", "t", "]", "|", "[",
     "l", "]">>

\* "[][n:int]/[:int]"
PatMixed ==
    <<"[", "]", "[", "n", ":", "i", "n", "t", "]", "/", "[", ":", "i",
     "n", "t", "]">>

\* "[:cap][]"
PatCap ==
    <<"[", ":", "c", "a", "p", "]", "[", "]">>

\* "[]x|[]"
PatFree ==
    <<"[", "]", "x", "|", "[", "]">>

\* "One"
PatOne ==
    <<"O", "n", "e">>

\* "[v:int]"
PatVInt ==
    <<"[", "v", ":", "i", "n", "t", "]">>

\* "[v:letters]"
PatVLetters ==
    <<"[", "v", ":", "l", "e", "t", "t", "e", "r", "s", "]">>

\* "a[]"
PatAFree ==
    <<"a", "[", "]">>

\* "1"
Str1 ==
    <<"1">>

\* "1.0"
Str1p0 ==
    <<"1", ".", "0">>

\* "v:1.0"
StrV1p0 ==
    <<"v", ":", "1", ".", "0">>

\* "v:x"
StrVx ==
    <<"v", ":", "x">>

\* "1 2"
Str1s2 ==
    <<"1", " ", "2">>

\* "a1/2"
StrA1s2 ==
    <<"a", "1", "/", "2">>

\* "x"
StrX ==
    <<"x">>

\* backslash, "a", "b"
StrBa ==
    <<"\\", "a", "b">>

\* "7x"
Str7x ==
    <<"7", "x">>

\* "One"
StrOne ==
    <<"O", "n", "e">>

\* "a1"
StrA1 ==
    <<"a", "1">>

\* "One1"
StrOne1 ==
    <<"O", "n", "e", "1">>

\* "opt"
NameOpt ==
    <<"o", "p", "t">>

\* "[0-9]*"
RegexOpt ==
    <<"[", "0", "-", "9", "]", "*">>

\* "cap"
NameCap ==
    <<"c", "a", "p">>

\* two backslashes, then "(a)": an escaped backslash and a group
RegexCap ==
    <<"\\", "\\", "(", "a", ")">>

\* "int"
NameInt ==
    <<"i", "n", "t">>

\* "[0-9]"
RegexDigit ==
    <<"[", "0", "-", "9", "]">>

\* register_type("opt", "[0-9]*", len): a type that matches the empty text.
RegOpt == [name |-> NameOpt, regex |-> RegexOpt, converter |-> "len"]

\* register_type("cap", r"\\(a)", len)
RegCap == [name |-> NameCap, regex |-> RegexCap, converter |-> "len"]

\* register_type("int", "[0-9]", len): overwrites a built-in type.
RegInt == [name |-> NameInt, regex |-> RegexDigit, converter |-> "len"]

\* How many registry entries a caller may add or overwrite.
MaxRegistrations == 1

\* How many Matchers a MultiMatcher holds.
NumMatchers == 2

(***************************************************************************)
(* The state.                                                              *)
(***************************************************************************)

VARIABLES
    registered_types,  \* the registry dict, in insertion order
    matchers,          \* the Matcher objects (one, or a MultiMatcher's list)
    strict,            \* MultiMatcher.strict
    compiled_types,    \* history: per Matcher, the registry as it was when
                       \* _create_regex last ran
    discarded,         \* history: per Matcher, the _regex its last pattern
                       \* assignment overwrote with None
    last               \* the last operation, its inputs and what it gave

vars == <<registered_types, matchers, strict, compiled_types, discarded, last>>

\* The record of an operation.
Operation(op, index, mode, string, arg, single_match, result, ran, compiled) ==
    [op |-> op, index |-> index, mode |-> mode, string |-> string, arg |-> arg,
     single_match |-> single_match, result |-> result, ran |-> ran,
     compiled |-> compiled, results |-> <<>>, replaced |-> NotReplaced]

Constructed == Operation("init", 0, "", <<>>, <<>>, NoMatch(<<>>), EmptyResult,
                         <<>>, FALSE)

\* The registry entries that are not the built-in ones.
UserEntries(types) ==
    Cardinality({i \in 1..Len(types) :
                    i > Len(BuiltinTypes) \/ types[i] # BuiltinTypes[i]})

(***************************************************************************)
(* The operations.                                                         *)
(***************************************************************************)

\* register_type(name, regex, converter), types the registry it leaves.
Registered(reg, types) ==
    /\ UserEntries(types) <= MaxRegistrations
    /\ registered_types' = types
    /\ last' = Operation("register_type", 0, "", <<>>, reg.name, NoMatch(<<>>),
                         EmptyResult, <<>>, FALSE)
    /\ UNCHANGED <<matchers, strict, compiled_types, discarded>>

RegisterType(reg) ==
    Registered(reg, register_type(registered_types, reg.name, reg.regex,
                                  reg.converter))

\* matcher.pattern = value
SetPattern(k, value) ==
    /\ matchers' = [matchers EXCEPT ![k] = pattern_setter(@, value)]
    /\ last' = Operation("pattern", k, "", <<>>, value, NoMatch(<<>>),
                         EmptyResult, <<>>, FALSE)
    /\ discarded' = [discarded EXCEPT ![k] = matchers[k].regex]
    /\ UNCHANGED <<registered_types, strict, compiled_types>>

\* matcher.regex, got what the property gives.
GotRegex(k, got) ==
    /\ matchers' = [matchers EXCEPT ![k] = got.m]
    /\ compiled_types' = IF got.compiled
                         THEN [compiled_types EXCEPT ![k] = registered_types]
                         ELSE compiled_types
    /\ last' = Operation("regex", k, "", <<>>, <<>>, NoMatch(<<>>),
                         Raised(got.err), <<>>, got.compiled)
    /\ UNCHANGED <<registered_types, strict, discarded>>

GetRegex(k) == GotRegex(k, regex_property(matchers[k], registered_types))

\* matcher.match(string), .match_start, .match_end or .search, got what the
\* operation gives.
Called(k, mode, string, got) ==
    /\ matchers' = [matchers EXCEPT ![k] = got.m]
    /\ compiled_types' = IF got.compiled
                         THEN [compiled_types EXCEPT ![k] = registered_types]
                         ELSE compiled_types
    /\ last' = Operation("call", k, mode, string, <<>>, got.single_match,
                         got.result, <<k>>, got.compiled)
    /\ UNCHANGED <<registered_types, strict, discarded>>

Call(k, mode, string) ==
    Called(k, mode, string,
           matcher_call(matchers[k], mode, string, registered_types))

\* multi_matcher.match(string), .match_start, .match_end or .search, got
\* what collect_results gives.
MultiCalled(mode, string, got) ==
    /\ matchers' = got.matchers
    /\ compiled_types' =
           [k \in 1..Len(matchers) |->
               IF matchers[k].regex.isNone /\ \E n \in 1..Len(got.ran) : got.ran[n] = k
               THEN registered_types ELSE compiled_types[k]]
    /\ last' = Operation("multi", 0, mode, string, <<>>, NoMatch(string),
                         got.result, got.ran, FALSE)
    /\ UNCHANGED <<registered_types, strict, discarded>>

MultiCall(mode, string) ==
    MultiCalled(mode, string,
                collect_results(matchers, strict, mode, string, registered_types))

\* multi_matcher.search_all(string), got what collect_results gives.
MultiSearchedAll(string, got) ==
    /\ matchers' = got.matchers
    /\ compiled_types' =
           [k \in 1..Len(matchers) |->
               IF matchers[k].regex.isNone /\ \E n \in 1..Len(got.ran) : got.ran[n] = k
               THEN registered_types ELSE compiled_types[k]]
    /\ last' = [Operation("multi_all", 0, "search_all", string, <<>>, NoMatch(string),
                          Raised(got.err), got.ran, FALSE)
                    EXCEPT !.results = got.results]
    /\ UNCHANGED <<registered_types, strict, discarded>>

MultiSearchAll(string) ==
    MultiSearchedAll(string,
                     collect_search_all(matchers, strict, string, registered_types))

\* result.replace(*with_values) on the MatchResult the last match operation
\* returned.
ReplacedIn(with_values, got) ==
    /\ last.op \in {"call", "multi"}
    /\ last.result.err.kind = "none"
    /\ last' = [last EXCEPT !.op = "replace", !.arg = with_values,
                            !.replaced = got]
    /\ UNCHANGED <<registered_types, matchers, strict, compiled_types,
                   discarded>>

Replace(with_values) == ReplacedIn(with_values, replace(last.result, with_values))

(***************************************************************************)
(* Spec: one Matcher through its life: pattern assignments, regex          *)
(* accesses, matches, and registrations in between.                        *)
(***************************************************************************)

Patterns == {PatDefault, PatIntInt, PatOpt, PatBogus, PatWidth}

Strings == {Str1s2, StrX, Str7x, Str1p0}

Registrations == {RegOpt, RegInt}

Init ==
    /\ registered_types = BuiltinTypes
    /\ \E pattern \in Patterns : matchers = <<Matcher(pattern, TRUE)>>
    /\ strict = FALSE
    /\ compiled_types = <<BuiltinTypes>>
    /\ discarded = <<NoRegex>>
    /\ last = Constructed

Next ==
    \/ \E value \in Patterns : SetPattern(1, value)
    \/ GetRegex(1)
    \/ \E mode \in Modes, string \in Strings : Call(1, mode, string)
    \/ \E reg \in Registrations : RegisterType(reg)

Spec == Init /\ [][Next]_vars

(***************************************************************************)
(* SpecExtract: a Matcher constructed with a pattern, matched against      *)
(* strings; the result extraction.                                         *)
(***************************************************************************)

ExtractPatterns ==
    {PatEither, PatValue, PatIntInt, PatMixed, PatWidth, PatOpt, PatCap, PatFree}

ExtractStrings ==
    {Str1, Str1p0, StrV1p0, StrVx, Str1s2, StrA1s2, StrX, StrBa}

ExtractRegistrations == {RegOpt, RegCap}

ExtractModes == {"match", "search"}

InitExtract ==
    /\ registered_types = BuiltinTypes
    /\ \E pattern \in ExtractPatterns : matchers = <<Matcher(pattern, TRUE)>>
    /\ strict = FALSE
    /\ compiled_types = <<BuiltinTypes>>
    /\ discarded = <<NoRegex>>
    /\ last = Constructed

NextExtract ==
    \/ \E mode \in ExtractModes, string \in ExtractStrings : Call(1, mode, string)
    \/ \E reg \in ExtractRegistrations : RegisterType(reg)

SpecExtract == InitExtract /\ [][NextExtract]_vars

(***************************************************************************)
(* SpecMulti: a MultiMatcher constructed with a list of patterns, strict   *)
(* or not, matched against strings.                                        *)
(***************************************************************************)

MultiPatterns == {PatOne, PatVInt, PatVLetters, PatAFree}

MultiStrings == {Str1, StrOne, StrA1, StrOne1}

InitMulti ==
    /\ registered_types = BuiltinTypes
    /\ \E patterns \in [1..NumMatchers -> MultiPatterns] :
           matchers = [k \in 1..NumMatchers |-> Matcher(patterns[k], TRUE)]
    /\ strict \in BOOLEAN
    /\ compiled_types = [k \in 1..NumMatchers |-> BuiltinTypes]
    /\ discarded = [k \in 1..NumMatchers |-> NoRegex]
    /\ last = Constructed

NextMulti ==
    \E mode \in Modes, string \in MultiStrings : MultiCall(mode, string)

SpecMulti == InitMulti /\ [][NextMulti]_vars

(***************************************************************************)
(* The MultiMatcher's results (SpecMulti).                                 *)
(***************************************************************************)

\* Whether matcher k alone succeeds on the last operation's input.
Succeeds(k) ==
    Truthy(matcher_call(matchers[k], last.mode, last.string,
                        registered_types).result)

\* What matcher k alone captures on the last operation's input.
Alone(k) == matcher_call(matchers[k], last.mode, last.string, registered_types).result

\* The first matcher that fails on the last operation's input, 0 if none.
FirstFailure == FirstIndex({k \in 1..Len(matchers) : ~Succeeds(k)})

\* C1 as stated: without strict, the combined result of match, match_start,
\* match_end and search is truthy exactly when the first matcher succeeds.
C1_TruthyAsFirstMatcher ==
    (last.op = "multi" /\ ~strict) => (Truthy(last.result) <=> Succeeds(1))

\* C1 amended: without strict, the combined result of match, match_start,
\* match_end and search is truthy exactly when at least one matcher
\* succeeds, the first or a later one, and every matcher is run.
C1_TruthyAsAnyMatcher ==
    (last.op = "multi" /\ ~strict) =>
        /\ Truthy(last.result) <=> \E k \in 1..Len(matchers) : Succeeds(k)
        /\ last.ran = [n \in 1..Len(matchers) |-> n]

\* A non-strict operation whose first matcher failed and a later one
\* succeeded, with a truthy result.
C1_LaterMatcherSucceeded ==
    /\ last.op = "multi" /\ ~strict
    /\ ~Succeeds(1)
    /\ \E k \in 2..Len(matchers) : Succeeds(k)
    /\ Truthy(last.result)

\* C2: under strict the matchers are run in list order up to the first that
\* fails and no further; the result of a failure is falsy, with an empty
\* mapping and an empty unnamed list; the result is truthy exactly when
\* every matcher succeeded.
C2_StrictAllOrNothing ==
    (last.op = "multi" /\ strict) =>
        /\ last.ran = [n \in 1..(IF FirstFailure = 0 THEN Len(matchers)
                                 ELSE FirstFailure) |-> n]
        /\ FirstFailure # 0 =>
              /\ ~Truthy(last.result)
              /\ last.result.named = <<>>
              /\ last.result.unnamed = <<>>
        /\ Truthy(last.result) <=> FirstFailure = 0

\* A strict operation whose first matcher succeeded and captured, and whose
\* second failed: nothing of the first is in the result.
C2_FailureAfterCapture ==
    /\ last.op = "multi" /\ strict
    /\ Succeeds(1) /\ Alone(1).named # <<>>
    /\ FirstFailure = 2
    /\ last.ran = <<1, 2>>
    /\ ~Truthy(last.result) /\ last.result.named = <<>>

(***************************************************************************)
(* The extraction of one Matcher's results (SpecExtract).  The capture     *)
(* plan is what the compile made of the pattern's bracketed spans, in      *)
(* pattern order; when the types contribute no group of their own, entry i *)
(* of the capture plan is group i of the regex.                            *)
(***************************************************************************)

\* The last operation was a match operation that returned a result.
Returned == last.op = "call" /\ last.result.err.kind = "none"

\* The last operation was a match operation whose match succeeded, and the
\* extraction returned.
Succeeded == Returned /\ last.single_match.matched

\* The capture plan of matcher 1's pattern: what the compile made of its
\* bracketed spans that became groups, in pattern order.
CapturePlan ==
    SelectSeq(create_regex(matchers[1].pattern, matchers[1].flexible_spaces,
                           compiled_types[1]).plan,
              LAMBDA entry : entry.form # "None")

IsUnnamed(entry) ==
    entry.form \in {"UnnamedFreeform", "UnnamedWidth", "UnnamedTyped"}

IsTyped(entry) == entry.form \in {"UnnamedTyped", "NamedTyped"}

\* The unnamed entries of the capture plan, as places in it.
UnnamedEntries(plan) == {i \in 1..Len(plan) : IsUnnamed(plan[i])}

\* The ordinal of the unnamed entry i: the unnamed entries before it.
Ordinal(plan, i) == Cardinality({j \in UnnamedEntries(plan) : j < i})

\* Every type the plan refers to is a built-in type.
BuiltinOnly(plan) ==
    \A i \in 1..Len(plan) :
        IsTyped(plan[i]) => KeyIndex(BuiltinTypes, plan[i].arg) # 0

\* The types of the plan have no capture group of their own.
OneGroupPerEntry(plan) == Len(last.single_match.names) = Len(plan)

\* The converter of an entry: its type's, as registered when the pattern
\* was compiled; str for an entry without a type.
ConverterOf(entry) ==
    IF IsTyped(entry)
    THEN compiled_types[1][KeyIndex(compiled_types[1], entry.arg)].converter
    ELSE "str"

KeyOf(plan, i) ==
    IF IsUnnamed(plan[i]) THEN IndexKey(Ordinal(plan, i))
    ELSE NameKey(plan[i].name)

\* converter(matched text) for entry i, None if its group did not participate.
Converted(plan, i) ==
    IF Participated(last.single_match, i)
    THEN Convert(ConverterOf(plan[i]), GroupText(last.single_match, i)).val
    ELSE NoneValue

\* The groups of the last match that have no name, in group order.
UnnamedGroups ==
    SelectSeq([k \in 1..Len(last.single_match.names) |-> k],
              LAMBDA k : last.single_match.names[k] = <<>>)

PlaceholdersIn(plan, groups) ==
    /\ Len(last.result.unnamed) = Len(groups)
    /\ \A n \in 1..Len(groups) :
           (last.result.unnamed[n] = NoneValue)
               <=> ~Participated(last.single_match, groups[n])
    /\ OneGroupPerEntry(plan)
           => Len(last.result.unnamed) = Cardinality(UnnamedEntries(plan))

C4_AbsentWithoutError ==
    (last.op = "call" /\ last.single_match.matched) =>
        /\ last.result.err.kind = "none"
        /\ \A k \in 1..Len(last.single_match.names) :
               (/\ last.single_match.names[k] # <<>>
                /\ ~Participated(last.single_match, k))
                   => KeyIndex(last.result.named, last.single_match.names[k]) = 0

OrdinalsIn(plan) ==
    BuiltinOnly(plan) =>
        /\ matchers[1].unnamed_group_index = Cardinality(UnnamedEntries(plan))
        /\ \A i \in 1..Len(plan) :
               IsTyped(plan[i]) =>
                   \E n \in 1..Len(matchers[1].converters) :
                       matchers[1].converters[n]
                           = [key |-> KeyOf(plan, i), conv |-> ConverterOf(plan[i])]
        /\ \A n \in 1..Len(matchers[1].converters) :
               \E i \in 1..Len(plan) :
                   IsTyped(plan[i]) /\ matchers[1].converters[n].key = KeyOf(plan, i)
        /\ Succeeded =>
               /\ Len(last.result.unnamed) = Cardinality(UnnamedEntries(plan))
               /\ \A i \in UnnamedEntries(plan) :
                      last.result.unnamed[Ordinal(plan, i) + 1] = Converted(plan, i)

\* C5: the unnamed ordinals count the unnamed groups only, in pattern order:
\* with built-in types, the converters are recorded under the name of a
\* named typed group and under the ordinal of an unnamed typed one, the
\* unnamed index ends at the number of unnamed groups, and result.unnamed
\* holds, at each ordinal, the converted text of that unnamed group.
C5_UnnamedOrdinals ==
    (last.op = "call" /\ ~matchers[1].regex.isNone) => OrdinalsIn(CapturePlan)

\* "[a:int] [:int]" matched "1 2": the mapping is {a: 1}, the list [2].
C5_NamedThenUnnamed ==
    /\ Succeeded
    /\ matchers[1].pattern = PatIntInt /\ last.string = Str1s2
    /\ last.result.named = <<[name |-> <<"a">>, val |-> IntValue(1)]>>
    /\ last.result.unnamed = <<IntValue(2)>>
    /\ matchers[1].converters = <<[key |-> NameKey(<<"a">>), conv |-> "int"],
                                  [key |-> IndexKey(0), conv |-> "int"]>>

\* The converter calls the claim expects of a successful match: one per
\* typed group that participated, on the text it matched.
TypedCalls(plan) ==
    {[conv |-> ConverterOf(plan[i]), text |-> GroupText(last.single_match, i)] :
        i \in {j \in 1..Len(plan) :
                  IsTyped(plan[j]) /\ Participated(last.single_match, j)}}

ConvertedIn(plan) ==
    OneGroupPerEntry(plan) =>
        /\ \A i \in 1..Len(plan) :
               (IsTyped(plan[i]) /\ Participated(last.single_match, i)) =>
                   IF IsUnnamed(plan[i])
                   THEN last.result.unnamed[Ordinal(plan, i) + 1] = Converted(plan, i)
                   ELSE \E n \in 1..Len(last.result.named) :
                            last.result.named[n]
                                = [name |-> plan[i].name, val |-> Converted(plan, i)]
        /\ {last.result.calls[n] : n \in 1..Len(last.result.calls)} = TypedCalls(plan)
        /\ Len(last.result.calls) = Cardinality(TypedCalls(plan))

\* C6 as stated: on a successful match the value of every typed group that
\* participated, named or unnamed, is converter(matched text), whatever the
\* text, the empty one included, each converter called once; no converter
\* is called after a failed match.
C6_ConvertedWhateverMatched ==
    /\ Succeeded => ConvertedIn(CapturePlan)
    /\ (last.op = "call" /\ ~last.single_match.matched) => last.result.calls = <<>>

\* C8 as stated: no regex stored in the registry has a capture group of its
\* own, so the compiled regex has one group per bracketed group of the
\* pattern.
C8_NoGroupsInTypes ==
    /\ \A n \in 1..Len(registered_types) :
           re_compile(registered_types[n].regex).ok
               => re_compile(registered_types[n].regex).names = <<>>
    /\ Succeeded => OneGroupPerEntry(CapturePlan)

(***************************************************************************)
(* The pattern cache and the unknown-type error, checked under Spec.       *)
(***************************************************************************)

\* "bogus"
NameBogus ==
    <<"b", "o", "g", "u", "s">>

\* The type names the patterns of Spec refer to, read off their text, in
\* pattern order.
TypeRefs(pattern) ==
    IF pattern = PatIntInt THEN <<NameInt, NameInt>>
    ELSE IF pattern = PatOpt THEN <<NameOpt, NameOpt>>
    ELSE IF pattern = PatBogus THEN <<NameBogus>>
    ELSE <<>>

\* The type names of the pattern that are absent from the registry.
MissingRefs(pattern) ==
    SelectSeq(TypeRefs(pattern),
              LAMBDA type_ : \A n \in 1..Len(registered_types) :
                                 registered_types[n].name # type_)

\* What an access or a match gave, `missing` the pattern's types absent from
\* the registry at that moment.
UnknownTypeIn(missing) ==
    IF missing = <<>>
    THEN /\ last.result.err.kind = "none"
         /\ ~matchers[1].regex.isNone
    ELSE /\ last.result.err.kind = "ValueError"
         /\ last.result.err.type = missing[1]
         /\ last.result.err.known
                = IF Len(registered_types) = 0 THEN NoneFound
                  ELSE JoinKeys(registered_types, 1)
         /\ matchers[1].regex.isNone

\* C7: a pattern that names a type absent from the registry never fails at
\* construction or assignment; every regex access and every match on it
\* raises the unknown-type error naming the first such type and listing
\* the names registered at that moment ("None found" if there is none), and
\* nothing is cached: as soon as no type of the current pattern is missing
\* (the type was registered or the pattern reassigned), the access or match
\* compiles and raises nothing.
C7_UnknownTypeLazily ==
    /\ last.op \in {"init", "pattern"} => last.result.err.kind = "none"
    /\ last.op \in {"regex", "call"}
           => UnknownTypeIn(MissingRefs(matchers[1].pattern))

\* "[x:bogus]" matched after opt was registered: the error names bogus and
\* lists "int,float,letters,opt".
C7_BogusAmongFour ==
    /\ last.op = "call"
    /\ matchers[1].pattern = PatBogus
    /\ matchers[1].regex.isNone
    /\ last.result.err.kind = "ValueError"
    /\ last.result.err.type = NameBogus
    /\ last.result.err.known
           = <<"i", "n", "t", ",", "f", "l", "o", "a", "t", ",",
               "l", "e", "t", "t", "e", "r", "s", ",", "o", "p", "t">>

\* The cache and the last match agree with c, a compile of the current
\* pattern.
CoherentWith(c) ==
    /\ c.err.kind = "none"
    /\ matchers[1].regex = CachedRegex(c.regex)
    /\ matchers[1].converters = c.converters
    /\ matchers[1].unnamed_group_index = c.index
    /\ Returned =>
           /\ last.single_match
                  = ModeMatch(last.mode, re_compile(ModeRegex(last.mode, c.regex)),
                              last.string)
           /\ last.result = create_result(last.single_match, c.converters)

\* C9: whenever the Matcher holds a cached regex, the regex text, the
\* converters and the unnamed index are those of a compile of its current
\* pattern (with the registry of the moment it compiled), and the match
\* that just returned used them; a pattern assignment leaves the new
\* pattern and no cached regex.
C9_CacheCoherent ==
    /\ ~matchers[1].regex.isNone
           => CoherentWith(create_regex(matchers[1].pattern,
                                        matchers[1].flexible_spaces,
                                        compiled_types[1]))
    /\ last.op = "pattern"
           => matchers[1].regex.isNone /\ matchers[1].pattern = last.arg

\* A match that compiled "[:2][w:1]" after the assignment discarded the
\* cached regex of "[a:int] [:int]": no converter is left.
C9_RecompiledAfterAssignment ==
    /\ Succeeded /\ last.compiled
    /\ matchers[1].pattern = PatWidth /\ last.string = Str1s2
    /\ discarded[1] = CachedRegex(create_regex(PatIntInt, TRUE, BuiltinTypes).regex)
    /\ matchers[1].converters = <<>>
    /\ matchers[1].unnamed_group_index = 1
    /\ last.result.unnamed = <<StrValue(<<"1", " ">>)>>
    /\ last.result.named = <<[name |-> <<"w">>, val |-> StrValue(<<"2">>)]>>

\* C10: once the Matcher holds a cached regex, every step that is not a
\* pattern assignment (a registration, a regex access, a match) leaves the
\* regex text and the converters as they were, and a match uses them.
C10_RegistrationLeavesCache ==
    [][(~matchers[1].regex.isNone /\ last'.op # "pattern") =>
          /\ matchers'[1].regex = matchers[1].regex
          /\ matchers'[1].converters = matchers[1].converters
          /\ last'.op = "call" =>
                 /\ last'.single_match
                        = ModeMatch(last'.mode,
                                    re_compile(ModeRegex(last'.mode,
                                                         matchers[1].regex.text)),
                                    last'.string)
                 /\ last'.result = create_result(last'.single_match,
                                                 matchers[1].converters)]_vars

\* "[a:int] [:int]" compiled, then int re-registered as "[0-9]" with len:
\* the match on "1 2" still converts with int, where a compile now would
\* give another regex.
C10_MatchAfterOverwrite ==
    /\ Succeeded /\ ~last.compiled
    /\ matchers[1].pattern = PatIntInt /\ last.string = Str1s2
    /\ registered_types[KeyIndex(registered_types, NameInt)].regex = RegexDigit
    /\ compiled_types[1] = BuiltinTypes
    /\ create_regex(PatIntInt, TRUE, registered_types).regex
           # matchers[1].regex.text
    /\ last.result.named = <<[name |-> <<"a">>, val |-> IntValue(1)]>>
    /\ last.result.unnamed = <<IntValue(2)>>

(***************************************************************************)
(* The merge of the MultiMatcher, checked under SpecMulti.                 *)
(***************************************************************************)

\* What each matcher alone gives on the last operation's input.
EachAlone == [k \in 1..Len(matchers) |-> Alone(k)]

\* The matchers of `alone` that succeeded and hold the name.
Holders(alone, name) ==
    {k \in 1..Len(alone) : Truthy(alone[k]) /\ KeyIndex(alone[k].named, name) # 0}

Latest(S) == CHOOSE k \in S : \A j \in S : j <= k

RECURSIVE UnnamedOfAll(_, _)
\* The unnamed lists of the matchers that succeeded, one after the other in
\* matcher order, from matcher k on.
UnnamedOfAll(alone, k) ==
    IF k > Len(alone) THEN <<>>
    ELSE (IF Truthy(alone[k]) THEN alone[k].unnamed ELSE <<>>)
         \o UnnamedOfAll(alone, k + 1)

MergedFrom(alone) ==
    /\ last.result.unnamed = UnnamedOfAll(alone, 1)
    /\ \A n \in 1..Len(last.result.named) :
           /\ Holders(alone, last.result.named[n].name) # {}
           /\ \E i \in 1..Len(alone[Latest(Holders(alone, last.result.named[n].name))].named) :
                  alone[Latest(Holders(alone, last.result.named[n].name))].named[i]
                      = last.result.named[n]
           /\ \A i \in 1..Len(last.result.named) :
                  last.result.named[i].name = last.result.named[n].name => i = n
    /\ \A k \in 1..Len(alone) :
           Truthy(alone[k]) =>
               \A i \in 1..Len(alone[k].named) :
                   KeyIndex(last.result.named, alone[k].named[i].name) # 0

NextMultiAll == \E string \in MultiStrings : MultiSearchAll(string)

SpecMultiAll == InitMulti /\ [][NextMultiAll]_vars

\* What each matcher's own search_all gives on the last operation's input.
EachSearchAll ==
    [k \in 1..Len(matchers) |->
        matcher_search_all(matchers[k], last.string, registered_types).results]

\* Every result of the last operation is one of a single matcher's.
FromOneMatcher(alone) ==
    \A n \in 1..Len(last.results) :
        \E k \in 1..Len(alone) : \E i \in 1..Len(alone[k]) :
            alone[k][i] = last.results[n]

\* C17 as stated: MultiMatcher.search_all completes without an error for
\* every list of patterns, strict or not, and every string, the case where
\* the first and a later matcher both find a match included, and each
\* result it returns is one a single matcher produced.
C17_SearchAllCompletes ==
    last.op = "multi_all" =>
        /\ last.result.err.kind = "none"
        /\ FromOneMatcher(EachSearchAll)

(***************************************************************************)
(* SpecCompile: a Matcher constructed with a pattern of literals, escapes, *)
(* wildcards and groups; its regex is read and it is matched against       *)
(* strings.                                                                *)
(***************************************************************************)

\* "[[a]]"
PatBrA ==
    <<"[", "[", "a", "]", "]">>

\* "[[ab]]"
PatBrAB ==
    <<"[", "[", "a", "b", "]", "]">>

\* Patterns "[[" t "]]" for a literal text t.
BracketPatterns == {PatBrA, PatBrAB}

\* "[a]"
StrBrA ==
    <<"[", "a", "]">>

\* "[ab]"
StrBrAB ==
    <<"[", "a", "b", "]">>

\* "a]"
StrACl ==
    <<"a", "]">>

\* "[xa]"
StrBrXA ==
    <<"[", "x", "a", "]">>

\* "[a"
StrOpA ==
    <<"[", "a">>

BracketStrings == {StrBrA, StrBrAB, StrACl, StrBrXA, StrOpA}

\* The pieces a pattern is written with: a literal character c, an escaped
\* operator "[c]", an operator c, the escapes "[[" and "]]", the group "[]".
Piece(kind, c, name, type) == [kind |-> kind, c |-> c, name |-> name, type |-> type]
Lit(c) == Piece("lit", c, <<>>, <<>>)
Esc(c) == Piece("esc", c, <<>>, <<>>)
Op(c) == Piece("op", c, <<>>, <<>>)
Open == Piece("open", "[", <<>>, <<>>)
Close == Piece("close", "]", <<>>, <<>>)
Group == Piece("group", "", <<>>, <<>>)
\* The groups "[name:type]", "[:type]", "[name]", "[name:N]" and "[:N]"
\* (the width N in the place of the type).
Typed(name, type) == Piece("typed", "", name, type)
UTyped(type) == Piece("utyped", "", <<>>, type)
Named(name) == Piece("named", "", name, <<>>)
NWidth(name, width) == Piece("nwidth", "", name, width)
Width(width) == Piece("width", "", <<>>, width)

\* The text a piece is written as.
PieceText(piece) ==
    IF piece.kind = "esc" THEN <<"[", piece.c, "]">>
    ELSE IF piece.kind = "open" THEN <<"[", "[">>
    ELSE IF piece.kind = "close" THEN <<"]", "]">>
    ELSE IF piece.kind = "group" THEN <<"[", "]">>
    ELSE IF piece.kind \in {"typed", "utyped", "nwidth", "width"}
    THEN <<"[">> \o piece.name \o <<":">> \o piece.type \o <<"]">>
    ELSE IF piece.kind = "named" THEN <<"[">> \o piece.name \o <<"]">>
    ELSE <<piece.c>>

PiecesText(pieces) == Concat([k \in 1..Len(pieces) |-> PieceText(pieces[k])])

\* "a[*]*", "[+]+", "[?]?", "[|]a", "*[?]", "[][*]", "[*]]]", "[[*"
WildcardPieces ==
    {<<Lit("a"), Esc("*"), Op("*")>>,
     <<Esc("+"), Op("+")>>,
     <<Esc("?"), Op("?")>>,
     <<Esc("|"), Lit("a")>>,
     <<Op("*"), Esc("?")>>,
     <<Group, Esc("*")>>,
     <<Esc("*"), Close>>,
     <<Open, Op("*")>>}

WildcardPatterns == {PiecesText(pieces) : pieces \in WildcardPieces}

\* "a*"
StrAStar ==
    <<"a", "*">>

\* "a*xy"
StrAStarXY ==
    <<"a", "*", "x", "y">>

\* "axy"
StrAXY ==
    <<"a", "x", "y">>

\* "+x"
StrPlusX ==
    <<"+", "x">>

\* "+"
StrPlus ==
    <<"+">>

\* "?"
StrQuest ==
    <<"?">>

\* "?a"
StrQuestA ==
    <<"?", "a">>

\* "|a"
StrBarA ==
    <<"|", "a">>

\* "ab?"
StrABQuest ==
    <<"a", "b", "?">>

\* "*]"
StrStarCl ==
    <<"*", "]">>

\* "[ab"
StrOpAB ==
    <<"[", "a", "b">>

\* "[["
StrOpOp ==
    <<"[", "[">>

WildcardStrings ==
    {StrAStar, StrAStarXY, StrAXY, StrPlusX, StrPlus, StrQuest, StrQuestA,
     StrBarA, StrABQuest, StrStarCl, StrOpAB, StrOpOp, StrOpA, StrX}

\* "a|b"
PatAOrB ==
    <<"a", "|", "b">>

\* "ax"
StrAX ==
    <<"a", "x">>

\* "xb"
StrXB ==
    <<"x", "b">>

\* "float"
NameFloat ==
    <<"f", "l", "o", "a", "t">>

\* "[y:int]-[m:int]: [v:float]", "a.b", "a b"
EscapePieces ==
    {<<Typed(<<"y">>, NameInt), Lit("-"), Typed(<<"m">>, NameInt), Lit(":"),
       Lit(" "), Typed(<<"v">>, NameFloat)>>,
     <<Lit("a"), Lit("."), Lit("b")>>,
     <<Lit("a"), Lit(" "), Lit("b")>>}

EscapePatterns == {PiecesText(pieces) : pieces \in EscapePieces}

\* "[]/[:2]", "[:int]x[n]", "[n:2][t:int]"
SpanPieces ==
    {<<Group, Lit("/"), Width(<<"2">>)>>,
     <<UTyped(NameInt), Lit("x"), Named(<<"n">>)>>,
     <<NWidth(<<"n">>, <<"2">>), Typed(<<"t">>, NameInt)>>}

\* "[ n : 2 ]"
PatSpaced ==
    <<"[", " ", "n", " ", ":", " ", "2", " ", "]">>

\* "x[n:]y"
PatNoType ==
    <<"x", "[", "n", ":", "]", "y">>

\* The patterns whose bracketed spans have one of the six forms, each with
\* the pieces it stands for.
SpanCases ==
    {[text |-> PiecesText(pieces), pieces |-> pieces] : pieces \in SpanPieces}
        \cup {[text |-> PatSpaced, pieces |-> <<NWidth(<<"n">>, <<"2">>)>>]}

SpanPatterns == {case.text : case \in SpanCases} \cup {PatNoType}

CompilePatterns ==
    BracketPatterns \cup WildcardPatterns \cup {PatAOrB} \cup EscapePatterns
        \cup SpanPatterns

CompileStrings == BracketStrings \cup WildcardStrings \cup {StrAX, StrXB}

CompileModes == {"match", "match_end"}

InitCompile ==
    /\ registered_types = BuiltinTypes
    /\ \E pattern \in CompilePatterns : matchers = <<Matcher(pattern, TRUE)>>
    /\ strict = FALSE
    /\ compiled_types = <<BuiltinTypes>>
    /\ discarded = <<NoRegex>>
    /\ last = Constructed

NextCompile ==
    \/ GetRegex(1)
    \/ \E mode \in CompileModes, string \in CompileStrings : Call(1, mode, string)

SpecCompile == InitCompile /\ [][NextCompile]_vars

\* The literal text t of a pattern "[[" t "]]".
Bracketed(pattern) == Slice(pattern, 3, Len(pattern) - 2)

\* C11 as stated: a pattern "[[" t "]]" compiles to a regex without a
\* capture group, and match succeeds on the string "[" t "]" and on no
\* other, with an empty mapping and an empty unnamed list.
C11_LiteralBrackets ==
    (matchers[1].pattern \in BracketPatterns /\ last.op \in {"regex", "call"}) =>
        /\ last.result.err.kind = "none"
        /\ re_compile(matchers[1].regex.text).names = <<>>
        /\ (last.op = "call" /\ last.mode = "match") =>
               /\ last.single_match.matched
                      <=> last.string
                              = <<"[">> \o Bracketed(matchers[1].pattern) \o <<"]">>
               /\ last.result.named = <<>>
               /\ last.result.unnamed = <<>>

\* The pieces a wildcard pattern was written with.
PiecesOf(pattern) ==
    CHOOSE pieces \in WildcardPieces : PiecesText(pieces) = pattern

RECURSIVE Fits(_, _, _, _)
\* Whether the pieces from the k-th on describe the string from index i on:
\* a literal, an escaped operator and an escaped bracket stand for their
\* one character, "*" and a group for any run, "+" for one character, "?"
\* for at most one.
Fits(pieces, k, string, i) ==
    IF k > Len(pieces) THEN i = Len(string) + 1
    ELSE IF pieces[k].kind \in {"lit", "esc", "open", "close"}
    THEN /\ i <= Len(string)
         /\ string[i] = pieces[k].c
         /\ Fits(pieces, k + 1, string, i + 1)
    ELSE IF pieces[k].kind = "group" \/ pieces[k].c = "*"
    THEN \E j \in i..(Len(string) + 1) : Fits(pieces, k + 1, string, j)
    ELSE IF pieces[k].c = "+"
    THEN i <= Len(string) /\ Fits(pieces, k + 1, string, i + 1)
    ELSE \/ Fits(pieces, k + 1, string, i)
         \/ i <= Len(string) /\ Fits(pieces, k + 1, string, i + 1)

EscapesIn(pieces) ==
    /\ last.result.err.kind = "none"
    /\ Len(re_compile(matchers[1].regex.text).names)
           = Cardinality({k \in 1..Len(pieces) : pieces[k].kind = "group"})
    /\ (last.op = "call" /\ last.mode = "match") =>
           (last.single_match.matched <=> Fits(pieces, 1, last.string, 1))

\* C12 as stated: in a pattern with escaped operators "[sym]", each of them
\* matches exactly the one character sym and makes no capture group, while
\* "*" matches any run, "+" one character and "?" at most one, whatever
\* else the pattern holds: match succeeds exactly on the strings the
\* pattern's pieces describe.
C12_EscapedOperatorsLiteral ==
    (matchers[1].pattern \in WildcardPatterns /\ last.op \in {"regex", "call"})
        => EscapesIn(PiecesOf(matchers[1].pattern))

\* Whether some match of the compiled regex, from some start, ends at the
\* end of the string.
EndsAtEnd(compiled, string) ==
    \E start \in 1..(Len(string) + 1) :
        Whole(string, MatchesFrom(compiled, string, start)) # <<>>

\* C13 as stated: match_end succeeds only if some match of the whole
\* pattern ends exactly at the end of the input, for every pattern, one
\* with a top-level "|" included.
C13_MatchEndAnchored ==
    (last.op = "call" /\ last.mode = "match_end" /\ last.single_match.matched)
        => EndsAtEnd(re_compile(matchers[1].regex.text), last.string)

\* The pieces an escape pattern was written with.
EscapePiecesOf(pattern) ==
    CHOOSE pieces \in EscapePieces : PiecesText(pieces) = pattern

\* The regex-special characters: parentheses, braces, hyphen, caret,
\* dollar, backslash, dot, ampersand, tilde, hash and the whitespace.
SpecialLiterals ==
    {"(", ")", "{", "}", "-", "^", "$", BSL, ".", "&", "~", "#",
     " ", "\t", "\n", "\r", "\f"}

\* The regex of a piece: a special literal with one backslash before it,
\* another literal as it is, a group as the capture fragment of its form (a
\* typed one around the sub-pattern of its type as registered).
PieceRegex(piece) ==
    IF piece.kind = "typed"
    THEN <<"(", "?", "P", "<">> \o piece.name \o <<">">>
         \o registered_types[KeyIndex(registered_types, piece.type)].regex
         \o <<")">>
    ELSE IF piece.kind = "utyped"
    THEN <<"(">> \o registered_types[KeyIndex(registered_types, piece.type)].regex
         \o <<")">>
    ELSE IF piece.kind = "nwidth"
    THEN <<"(", "?", "P", "<">> \o piece.name \o <<">", ".", "{">> \o piece.type
         \o <<"}", ")">>
    ELSE IF piece.kind = "width"
    THEN <<"(", ".", "{">> \o piece.type \o <<"}", ")">>
    ELSE IF piece.kind = "named"
    THEN <<"(", "?", "P", "<">> \o piece.name \o <<">", ".", "*", ")">>
    ELSE IF piece.kind = "group" THEN <<"(", ".", "*", ")">>
    ELSE IF piece.c \in SpecialLiterals THEN <<BSL, piece.c>>
    ELSE <<piece.c>>

PiecesRegex(pieces) == Concat([k \in 1..Len(pieces) |-> PieceRegex(pieces[k])])

\* C14 as stated: the regex of a Matcher built with default arguments has,
\* for each regex-special literal of the pattern, a space included, a
\* backslash and that character and nothing else around it, and for each
\* typed group the registered sub-pattern: the regex of
\* "[y:int]-[m:int]: [v:float]" is
\* (?P<y>[+-]?[0-9]+)\-(?P<m>[+-]?[0-9]+):\ (?P<v>[+-]?(?:[0-9]*[.])?[0-9]+).
C14_EscapedWithBackslashOnly ==
    (matchers[1].pattern \in EscapePatterns /\ ~matchers[1].regex.isNone)
        => matchers[1].regex.text = PiecesRegex(EscapePiecesOf(matchers[1].pattern))

\* The bracketed spans of a pattern without escapes.
SpanCount(pattern) == Cardinality({i \in 1..Len(pattern) : pattern[i] = "["})

\* C16 as stated: every bracketed span of the pattern is replaced by the
\* capture fragment of its form, spaces stripped: "[]" by (.*), "[:N]" by
\* (.{N}), "[:type]" by (sub-pattern), "[name]" by (?P<name>.*), "[name:N]"
\* by (?P<name>.{N}), "[name:type]" by (?P<name>sub-pattern); a width is
\* never looked up as a type, and no span is left without a capture
\* fragment.
C16_SixForms ==
    (matchers[1].pattern \in SpanPatterns /\ last.op \in {"regex", "call"}) =>
        /\ last.result.err.kind = "none"
        /\ Len(re_compile(matchers[1].regex.text).names)
               = SpanCount(matchers[1].pattern)
        /\ \A case \in SpanCases :
               case.text = matchers[1].pattern
                   => matchers[1].regex.text = PiecesRegex(case.pieces)


(***************************************************************************)
(* SpecReplace: a Matcher constructed with a pattern, matched against      *)
(* strings, and replace called on the results with positional values.      *)
(***************************************************************************)

\* "X"
ValX ==
    <<"X">>

\* "YZ"
ValYZ ==
    <<"Y", "Z">>

ReplacePatterns == {PatIntInt, PatEither, PatMixed, PatFree, PatWidth, PatOne}

ReplaceStrings == {Str1, Str1p0, Str1s2, StrA1s2, StrX, Str7x, StrOne}

ReplaceModes == {"match", "search"}

ReplaceValues == {<<>>, <<ValX>>, <<ValX, ValYZ>>, <<ValYZ, ValX, ValX>>}

InitReplace ==
    /\ registered_types = BuiltinTypes
    /\ \E pattern \in ReplacePatterns : matchers = <<Matcher(pattern, TRUE)>>
    /\ strict = FALSE
    /\ compiled_types = <<BuiltinTypes>>
    /\ discarded = <<NoRegex>>
    /\ last = Constructed

NextReplace ==
    \/ \E mode \in ReplaceModes, string \in ReplaceStrings : Call(1, mode, string)
    \/ \E with_values \in ReplaceValues : Replace(with_values)

SpecReplace == InitReplace /\ [][NextReplace]_vars

\* The spans of the groups that participated in the match, in group order.
ParticipatingSpans(match) == SelectSeq(match.spans, LAMBDA span : span # NoSpan)

\* The first k of the groups.
Taken(groups, k) ==
    SubSeq(groups, 1, IF k < Len(groups) THEN k ELSE Len(groups))

\* What the string with the taken groups replaced has for position p
\* (0-based) of the input: the values of the groups that start there, and
\* the input's character unless it lies in one of the groups.
ReplacedAt(string, taken, values, p) ==
    Concat([j \in 1..Len(taken) |->
               IF taken[j][1] = p THEN values[j] ELSE <<>>])
    \o (IF /\ p < Len(string)
           /\ \A j \in 1..Len(taken) : ~(taken[j][1] <= p /\ p < taken[j][2])
        THEN <<string[p + 1]>>
        ELSE <<>>)

\* The input string with the spans of the taken groups replaced by the values.
WithGroupsReplaced(string, taken, values) ==
    Concat([q \in 1..Len(string) + 1 |-> ReplacedAt(string, taken, values, q - 1)])

\* C18: replace(v1, ..., vk) on a successful match returns the matched input
\* string with the spans of the groups that participated, taken in order,
\* replaced by v1..vk: every character outside those spans stays in place,
\* the groups beyond the k-th keep their text, and a group that did not
\* participate neither consumes a value nor alters the string.
C18_ReplacesParticipatingGroups ==
    (last.op = "replace" /\ last.arg # <<>> /\ Truthy(last.result))
        => last.replaced =
               Replaced(WithGroupsReplaced(
                            last.string,
                            Taken(ParticipatingSpans(last.result.matches[1]),
                                  Len(last.arg)),
                            last.arg),
                        NoError)

====
